---- MODULE Spec2Model ----
(***************************************************************************)
(* A model of the JSON extraction and normalisation pipeline of            *)
(* src/src/autogen/app.py.                                                 *)
(*                                                                         *)
(* A text is a sequence of symbols.  A symbol is one character of the      *)
(* text, written as a one-character string, except for three symbols that  *)
(* stand for a fixed run of characters the code only ever treats as a      *)
(* whole: the code fence (three backticks), null and the word json.        *)
(* A Python value is a record [t, v]: t is the type tag and v the payload, *)
(* a sequence of symbols for str and int, a sequence of values for list, a *)
(* function from keys (sequences of symbols) to values for dict.           *)
(***************************************************************************)
EXTENDS Integers, Sequences, FiniteSets, TLC

VARIABLES
    text,     \* the text handed to clean_json_response
    pc,       \* where clean_json_response stands: the strategy to try next
    result,   \* what clean_json_response returned
    tried,    \* the strategies it has consulted, in order
    handler,  \* the function or endpoint handler in progress
    hpc,      \* where it stands: "call" or "returned"
    data,     \* the object passed to a normalizer, as its caller sees it
    out,      \* the value the normalizer returned
    resp,     \* the response envelope of an endpoint handler
    calls     \* history: the calls of helper functions made so far, in order,
              \* each with the argument as it was when passed

xvars == <<text, pc, result, tried>>
hvars == <<handler, hpc, data, out, resp, calls>>
vars == <<text, pc, result, tried, handler, hpc, data, out, resp, calls>>

\* ------------------------------------------------------------------ bounds

\* Longest text of the exhaustive extraction specification.
MaxLen == 4

\* The interpreter's recursion limit (sys.getrecursionlimit(), 1000 by
\* default), scaled to the size of the texts explored: json.loads raises
\* RecursionError when the nesting of a document exceeds it.
RecursionLimit == 5

\* ------------------------------------------------------------ Python values

NoneV == [t |-> "none", v |-> <<>>]
StrV(s) == [t |-> "str", v |-> s]
IntV(s) == [t |-> "int", v |-> s]
ListV(s) == [t |-> "list", v |-> s]
DictV(m) == [t |-> "dict", v |-> m]
BoolV(b) == [t |-> "bool", v |-> <<IF b THEN "True" ELSE "False">>]
EmptyDict == DictV(<<>>)
EmptyList == ListV(<<>>)
\* a variable that holds no value yet
Unset == [t |-> "unset", v |-> <<>>]

IsDict(x) == x.t = "dict"
IsList(x) == x.t = "list"
IsStr(x) == x.t = "str"

IsInt(x) == x.t = "int"

\* d[k] = v on a dict payload
DictSet(m, k, x) == [y \in (DOMAIN m) \cup {k} |-> IF y = k THEN x ELSE m[y]]

\* A key or a one-piece string: the piece stands for its characters.
K(name) == <<name>>
S(piece) == StrV(<<piece>>)

\* a dict literal, written as a record
Py(r) == DictV([k \in {K(f) : f \in DOMAIN r} |-> r[k[1]]])

\* k in d, d.get(k), d[k] = x (as a new value), del d[k]
Has(d, name) == K(name) \in DOMAIN d.v
Get(d, name) == IF Has(d, name) THEN d.v[K(name)] ELSE NoneV
Set(d, name, x) == DictV(DictSet(d.v, K(name), x))
Del(d, name) == DictV([k \in (DOMAIN d.v) \ {K(name)} |-> d.v[k]])

\* bool(x)
Truthy(x) ==
    CASE x.t = "none" -> FALSE
      [] x.t = "bool" -> x.v = <<"True">>
      [] x.t = "int" -> x.v # <<"0">>
      [] x.t = "str" -> x.v # <<>>
      [] x.t = "list" -> x.v # <<>>
      [] x.t = "dict" -> DOMAIN x.v # {}

\* the record of one call
Call(fn, arg) == [fn |-> fn, arg |-> arg]

\* a or b
Or(a, b) == IF Truthy(a) THEN a ELSE b

\* the text an f-string makes of a value
Fmt(x) ==
    CASE x.t \in {"str", "int", "bool"} -> x.v
      [] x.t = "none" -> <<"None">>
      [] OTHER -> <<"repr">>

\* the decimal text of a small number
Dec(n) == <<ToString(n)>>

\* ----------------------------------------------------------------- symbols

\* the three backticks of a markdown code fence
Fence == "FENCE"
Quote == "\""
Newline == "\n"
Whitespace == {" ", Newline}
Digits == {"1", "2", "5"}
Letters == {"a", "b", "c", "d", "x", "A", "B", "C", "D"}
\* Words written as one symbol.  A text is built from symbols of which no
\* run spells, across a boundary between symbols, a word the code looks for.
Words ==
    {"null", "json", "true", "false", "True", "False", "answer", "Answer", "correct",
     "Question", "questions", "question", "options", "modules", "lessons", "title", "id",
     "prefer", "like", "enjoy", "rather", "learning", "style", "learn", "best", "absorb",
     "time", "hours", "schedule", "spend", "experience", "familiar", "knowledge",
     "understand", "challenge", "difficult", "struggle", "hard", "goal", "achieve",
     "want", "to", "aim", "how", "How", "much"}
\* \w of the re module: letters, digits and underscore
WordSyms == Letters \cup Digits \cup Words

\* text[i..j], empty when j < i
Slice(s, i, j) == IF j < i THEN <<>> ELSE SubSeq(s, i, j)

\* the least index >= i of a symbol of s in set cs, 0 when there is none
RECURSIVE FindFrom(_, _, _)
FindFrom(s, cs, i) ==
    IF i > Len(s) THEN 0
    ELSE IF s[i] \in cs THEN i
    ELSE FindFrom(s, cs, i + 1)

\* the greatest index <= i of a symbol of s in set cs, 0 when there is none
RECURSIVE FindBack(_, _, _)
FindBack(s, cs, i) ==
    IF i < 1 THEN 0
    ELSE IF s[i] \in cs THEN i
    ELSE FindBack(s, cs, i - 1)

\* --------------------------------------------------------------- json.loads

\* Outcomes of a parse: ok with the value and the index after it, fail for
\* json.JSONDecodeError, rec for RecursionError.
Ok(x, j) == [st |-> "ok", val |-> x, nxt |-> j]
Fail == [st |-> "fail", val |-> NoneV, nxt |-> 0]
Rec == [st |-> "rec", val |-> NoneV, nxt |-> 0]

RECURSIVE SkipWs(_, _)
SkipWs(s, i) ==
    IF i <= Len(s) /\ s[i] \in Whitespace THEN SkipWs(s, i + 1) ELSE i

\* py_scanstring, strict: from index j (after the opening quote) to the
\* closing quote; a control character inside the literal is an error.
RECURSIVE ScanString(_, _, _)
ScanString(s, j, acc) ==
    IF j > Len(s) THEN Fail
    ELSE IF s[j] = Quote THEN Ok(StrV(acc), j + 1)
    ELSE IF s[j] = Newline THEN Fail
    ELSE ScanString(s, j + 1, Append(acc, s[j]))

\* the integer part of NUMBER_RE: the longest run of digits from j
RECURSIVE ScanNumber(_, _, _)
ScanNumber(s, j, acc) ==
    IF j <= Len(s) /\ s[j] \in Digits
    THEN ScanNumber(s, j + 1, Append(acc, s[j]))
    ELSE Ok(IntV(acc), j)

\* An object key: a string literal; with bare = TRUE (not Python's json: the
\* reference reading of an object whose keys lack their quotes) also a bare
\* word, a run of word symbols that starts with a letter.
RECURSIVE ScanWord(_, _, _)
ScanWord(s, j, acc) ==
    IF j <= Len(s) /\ s[j] \in WordSyms
    THEN ScanWord(s, j + 1, Append(acc, s[j]))
    ELSE Ok(StrV(acc), j)

ScanKey(s, j, bare) ==
    IF j > Len(s) THEN Fail
    ELSE IF s[j] = Quote THEN ScanString(s, j + 1, <<>>)
    ELSE IF bare /\ s[j] \in Letters THEN ScanWord(s, j, <<>>)
    ELSE Fail

RECURSIVE ScanOnce(_, _, _, _)
RECURSIVE ArrayLoop(_, _, _, _, _)
RECURSIVE ObjectLoop(_, _, _, _, _)

\* JSONArray: j is the index of the next element
ArrayLoop(s, j, d, bare, acc) ==
    LET r == ScanOnce(s, j, d, bare) IN
    IF r.st # "ok" THEN r
    ELSE LET k == SkipWs(s, r.nxt) IN
         IF k > Len(s) THEN Fail
         ELSE IF s[k] = "]" THEN Ok(ListV(Append(acc, r.val)), k + 1)
         ELSE IF s[k] = "," THEN ArrayLoop(s, SkipWs(s, k + 1), d, bare, Append(acc, r.val))
         ELSE Fail

\* JSONObject: j is the index of the next key
ObjectLoop(s, j, d, bare, acc) ==
    LET key == ScanKey(s, j, bare) IN
    IF key.st # "ok" THEN Fail
    ELSE LET c == SkipWs(s, key.nxt) IN
         IF c > Len(s) \/ s[c] # ":" THEN Fail
         ELSE LET r == ScanOnce(s, SkipWs(s, c + 1), d, bare) IN
              IF r.st # "ok" THEN r
              ELSE LET k == SkipWs(s, r.nxt)
                       m == DictSet(acc, key.val.v, r.val)
                   IN IF k > Len(s) THEN Fail
                      ELSE IF s[k] = "}" THEN Ok(DictV(m), k + 1)
                      ELSE IF s[k] = "," THEN ObjectLoop(s, SkipWs(s, k + 1), d, bare, m)
                      ELSE Fail

\* scan_once at index i, d enclosing containers deep
ScanOnce(s, i, d, bare) ==
    IF i > Len(s) THEN Fail
    ELSE IF s[i] = Quote THEN ScanString(s, i + 1, <<>>)
    ELSE IF s[i] = "{" THEN
        IF d + 1 > RecursionLimit THEN Rec
        ELSE LET j == SkipWs(s, i + 1) IN
             IF j <= Len(s) /\ s[j] = "}" THEN Ok(EmptyDict, j + 1)
             ELSE ObjectLoop(s, j, d + 1, bare, <<>>)
    ELSE IF s[i] = "[" THEN
        IF d + 1 > RecursionLimit THEN Rec
        ELSE LET j == SkipWs(s, i + 1) IN
             IF j <= Len(s) /\ s[j] = "]" THEN Ok(ListV(<<>>), j + 1)
             ELSE ArrayLoop(s, j, d + 1, bare, <<>>)
    ELSE IF s[i] = "null" THEN Ok(NoneV, i + 1)
    ELSE IF s[i] = "true" THEN Ok(BoolV(TRUE), i + 1)
    ELSE IF s[i] = "false" THEN Ok(BoolV(FALSE), i + 1)
    ELSE IF s[i] \in Digits THEN ScanNumber(s, i, <<>>)
    ELSE Fail

\* JSONDecoder.decode: leading whitespace, one value, trailing whitespace,
\* and nothing else ("Extra data")
Decode(s, bare) ==
    LET r == ScanOnce(s, SkipWs(s, 1), 0, bare) IN
    IF r.st # "ok" THEN r
    ELSE IF SkipWs(s, r.nxt) = Len(s) + 1 THEN r ELSE Fail

JsonLoads(s) == Decode(s, FALSE)

\* ---------------------------------------------------- clean_json_response

\* The value returned when the extraction itself raises.
ErrorSentinel == DictV(<<"error">> :> StrV(<<"Failed to extract valid JSON">>))

NoMatch == [found |-> FALSE, span |-> <<>>]
Match(s) == [found |-> TRUE, span |-> s]

\* re.search(open [\s\S]* close): from the first opening symbol to the last
\* closing symbol after it
GreedySpan(s, open, close) ==
    LET i == FindFrom(s, {open}, 1)
        j == FindBack(s, {close}, Len(s))
    IN IF i # 0 /\ j > i THEN Match(SubSeq(s, i, j)) ELSE NoMatch

ObjectSpan(s) == GreedySpan(s, "{", "}")
ArraySpan(s) == GreedySpan(s, "[", "]")

\* the least p >= i at which whitespace and then a fence follow, 0 if none
RECURSIVE FenceClose(_, _)
FenceClose(s, i) ==
    IF i > Len(s) THEN 0
    ELSE LET k == SkipWs(s, i) IN
         IF k <= Len(s) /\ s[k] = Fence THEN i
         ELSE FenceClose(s, i + 1)

\* re.search of fence (?:json)? \s* ([\s\S]*?) \s* fence: group 1
CodeBlock(s) ==
    LET f == FindFrom(s, {Fence}, 1)
        a == IF f # 0 /\ f + 1 <= Len(s) /\ s[f + 1] = "json" THEN f + 2 ELSE f + 1
        b == SkipWs(s, a)
        p == FenceClose(s, b)
    IN IF f = 0 \/ p = 0 THEN NoMatch ELSE Match(Slice(s, b, p - 1))

\* the index at which the bracket counter of extract_json_by_building
\* returns to zero, scanning from i with the counter at open; 0 if never
RECURSIVE BalancedEnd(_, _, _)
BalancedEnd(s, i, open) ==
    IF i > Len(s) THEN 0
    ELSE LET n == IF s[i] \in {"{", "["} THEN open + 1
                  ELSE IF s[i] \in {"}", "]"} THEN open - 1
                  ELSE open
         IN IF n = 0 THEN i ELSE BalancedEnd(s, i + 1, n)

\* json_str.replace('\n', ' ')
ReplaceNewlines(s) == [i \in 1..Len(s) |-> IF s[i] = Newline THEN " " ELSE s[i]]

\* the index after the run of word symbols that starts at i
RECURSIVE WordEnd(_, _)
WordEnd(s, i) ==
    IF i <= Len(s) /\ s[i] \in WordSyms THEN WordEnd(s, i + 1) ELSE i

\* re.sub(r'(\w+):', r'"\1":', s): every run of word symbols that a colon
\* follows directly is wrapped in double quotes
RECURSIVE QuoteKeys(_, _)
QuoteKeys(s, i) ==
    IF i > Len(s) THEN <<>>
    ELSE IF s[i] \in WordSyms THEN
        LET e == WordEnd(s, i) IN
        IF e <= Len(s) /\ s[e] = ":"
        THEN <<Quote>> \o SubSeq(s, i, e - 1) \o <<Quote, ":">> \o QuoteKeys(s, e + 1)
        ELSE SubSeq(s, i, e - 1) \o QuoteKeys(s, e)
    ELSE <<s[i]>> \o QuoteKeys(s, i + 1)

Cleaned(s) == QuoteKeys(ReplaceNewlines(s), 1)

\* extract_json_by_building up to its return: the first balanced span from
\* the first opening bracket, parsed as it stands and, failing that, cleaned
BuildOutcome(s) ==
    LET start == FindFrom(s, {"{", "["}, 1)
        stop == IF start = 0 THEN 0 ELSE BalancedEnd(s, start, 0)
    IN IF start = 0 \/ stop = 0 THEN Fail
       ELSE LET json_str == SubSeq(s, start, stop)
                r == JsonLoads(json_str)
            IN IF r.st # "fail" THEN r ELSE JsonLoads(Cleaned(json_str))

\* extract_json_by_building: None unless the span parses; any exception
\* (RecursionError included) is swallowed into None
extract_json_by_building(s) ==
    LET r == BuildOutcome(s) IN IF r.st = "ok" THEN r.val ELSE NoneV

\* One step of clean_json_response per strategy; pc is the strategy to try
\* next, tried the strategies consulted so far.  A strategy that finds no
\* candidate, or whose candidate fails to parse, falls through to the next.
Step(name, m, next) ==
    /\ tried' = Append(tried, name)
    /\ LET r == IF m.found THEN JsonLoads(m.span) ELSE Fail IN
       CASE r.st = "ok" -> pc' = "done" /\ result' = r.val
         [] r.st = "rec" -> pc' = "done" /\ result' = ErrorSentinel
         [] OTHER -> pc' = next /\ UNCHANGED result
    /\ UNCHANGED <<text, hvars>>

\* DirectParse with a plausible slip: only a container is taken from the
\* direct parse, a scalar falls through to the span strategies
DirectParseContainersOnly ==
    /\ pc = "direct"
    /\ tried' = Append(tried, "direct")
    /\ LET r == JsonLoads(text) IN
       CASE r.st = "ok" /\ r.val.t \in {"dict", "list"} -> pc' = "done" /\ result' = r.val
         [] r.st = "rec" -> pc' = "raised" /\ UNCHANGED result
         [] OTHER -> pc' = "object" /\ UNCHANGED result
    /\ UNCHANGED <<text, hvars>>

\* lines 234-238: json.loads(text) outside the outer try; only
\* JSONDecodeError is caught there
DirectParse ==
    /\ pc = "direct"
    /\ tried' = Append(tried, "direct")
    /\ LET r == JsonLoads(text) IN
       CASE r.st = "ok" -> pc' = "done" /\ result' = r.val
         [] r.st = "rec" -> pc' = "raised" /\ UNCHANGED result
         [] OTHER -> pc' = "object" /\ UNCHANGED result
    /\ UNCHANGED <<text, hvars>>

ObjectSpanParse == pc = "object" /\ Step("object", ObjectSpan(text), "array")

ArraySpanParse == pc = "array" /\ Step("array", ArraySpan(text), "fence")

CodeBlockParse == pc = "fence" /\ Step("fence", CodeBlock(text), "build")

ExtractByBuilding ==
    /\ pc = "build"
    /\ tried' = Append(tried, "build")
    /\ pc' = "done"
    /\ result' = extract_json_by_building(text)
    /\ UNCHANGED <<text, hvars>>

Extract ==
    \/ DirectParse
    \/ ObjectSpanParse
    \/ ArraySpanParse
    \/ CodeBlockParse
    \/ ExtractByBuilding

\* ------------------------------------------ specification: every short text

Sigma == {"{", "}", "[", "]", Quote, ":", ",", "1", "a", " ", Newline, Fence, "null"}

RECURSIVE SeqsUpTo(_, _)
SeqsUpTo(A, n) ==
    IF n = 0 THEN {<<>>}
    ELSE LET shorter == SeqsUpTo(A, n - 1) IN
         shorter \cup {Append(q, c) : q \in {x \in shorter : Len(x) = n - 1}, c \in A}

\* no handler in progress: clean_json_response called on its own
NoHandler ==
    /\ handler = "none"
    /\ hpc = "call"
    /\ data = Unset
    /\ out = Unset
    /\ resp = Unset
    /\ calls = <<>>

\* n opening brackets
Nest(n) == [i \in 1..n |-> "["]

\* texts whose brackets nest deeper than the recursion limit
DeepTexts ==
    {pre \o Nest(RecursionLimit + 1) \o post :
        pre \in {<<>>, <<"x">>, <<"{">>}, post \in {<<>>, <<"]">>, <<"}">>}}

Init ==
    /\ text \in SeqsUpTo(Sigma, MaxLen) \cup DeepTexts
    /\ pc = "direct"
    /\ result = NoneV
    /\ tried = <<>>
    /\ NoHandler

Next == Extract

Spec == Init /\ [][Next]_vars

\* ------------------------------- specification: a fenced block amid noise

MaxInterior == 4

FenceSigma == {"{", "}", "[", "]", "1", Quote}

\* what surrounds the fenced block
Noise == {<<>>, <<"}">>, <<"{">>, <<"x">>, Nest(RecursionLimit + 1) \o <<"]">>}

FencedTexts ==
    {pre \o <<Fence>> \o tag \o body \o <<Fence>> \o post :
        pre \in Noise, post \in Noise, tag \in {<<>>, <<"json">>},
        body \in SeqsUpTo(FenceSigma, MaxInterior)}

InitFence ==
    /\ text \in FencedTexts
    /\ pc = "direct"
    /\ result = NoneV
    /\ tried = <<>>
    /\ NoHandler

SpecFence == InitFence /\ [][Next]_vars

\* ------------- specification: lists whose strings hold raw newlines

\* longest text between the brackets of the list
MaxCollapseBody == 5

CollapseSigma == {Quote, "a", ":", Newline, " ", ","}

\* the span extract_json_by_building parses (lines 282-299), empty when
\* there is none
Candidate(s) ==
    LET start == FindFrom(s, {"{", "["}, 1)
        stop == IF start = 0 THEN 0 ELSE BalancedEnd(s, start, 0)
    IN IF start = 0 \/ stop = 0 THEN <<>> ELSE SubSeq(s, start, stop)

\* a span that is JSON but for the raw newlines in it
IsCollapsible(s) ==
    /\ JsonLoads(s).st = "fail"
    /\ JsonLoads(ReplaceNewlines(s)).st = "ok"

InitCollapse ==
    /\ text \in {s \in {<<"[">> \o body \o <<"]">> :
                           body \in SeqsUpTo(CollapseSigma, MaxCollapseBody)} :
                    IsCollapsible(s)}
    /\ pc = "direct"
    /\ result = NoneV
    /\ tried = <<>>
    /\ NoHandler

SpecCollapse == InitCollapse /\ [][Next]_vars

\* --------------------------- specification: a JSON array amid prose

\* longest text between the brackets of the array
MaxArrayBody == 4

ArraySigma == {"{", "}", "1", ",", Quote, "a"}

\* the JSON arrays of up to MaxArrayBody symbols between their brackets
Arrays ==
    {s \in {<<"[">> \o body \o <<"]">> : body \in SeqsUpTo(ArraySigma, MaxArrayBody)} :
        JsonLoads(s).st = "ok" /\ IsList(JsonLoads(s).val)}

\* prose before and after the array
ProseBefore == {<<"x", " ">>, <<"x", ":", " ">>}
ProseAfter == {<<" ", "x">>, <<" ", "x", "]">>}

InitArray ==
    /\ text \in {pre \o a \o post : pre \in ProseBefore, a \in Arrays, post \in ProseAfter}
    /\ pc = "direct"
    /\ result = NoneV
    /\ tried = <<>>
    /\ NoHandler

SpecArray == InitArray /\ [][Next]_vars

\* -------------------- specification: object literals with unquoted keys

\* longest text between the braces of the object literal
MaxRepairBody == 5

RepairSigma == {"{", "}", "a", ":", "1", Quote, " ", ","}

\* the reading of an object literal whose keys may lack their quotes
BareKeyLoads(s) == Decode(s, TRUE)

\* a single object literal that is JSON but for its unquoted keys
IsBareKeyObject(s) ==
    /\ JsonLoads(s).st = "fail"
    /\ BareKeyLoads(s).st = "ok"
    /\ IsDict(BareKeyLoads(s).val)
    /\ s[1] = "{" /\ s[Len(s)] = "}"

InitRepair ==
    /\ text \in {s \in {<<"{">> \o body \o <<"}">> : body \in SeqsUpTo(RepairSigma, MaxRepairBody)} :
                    IsBareKeyObject(s)}
    /\ pc = "direct"
    /\ result = NoneV
    /\ tried = <<>>
    /\ NoHandler

SpecRepair == InitRepair /\ [][Next]_vars

\* ------------------------------------------------ ensure_course_json_format

\* int(time.time()), datetime.now().isoformat() and uuid4 at the time of the
\* call: values of the environment, each standing for itself
Now == "1700000000"
IsoNow == "2024-01-01T00:00:00"
Uuid == "uuid4"

Sixty == IntV(<<"6", "0">>)

\* lines 2845-2863 (and 2923-2941): the templated module
DefaultModule(topic) ==
    Py([id |-> StrV(<<"module_", Now, "_1">>),
        title |-> StrV(<<"Introduction to ">> \o topic),
        description |-> StrV(<<"An overview of ">> \o topic \o <<" fundamentals.">>),
        lessons |-> ListV(<<
            Py([id |-> StrV(<<"lesson_", Now, "_1_1">>),
                title |-> StrV(<<"Getting Started with ">> \o topic),
                description |-> S("Basic concepts and foundations."),
                contentSummary |-> StrV(<<"This lesson introduces the fundamental concepts of ">> \o topic \o <<".">>),
                estimatedDuration |-> Sixty,
                resources |-> EmptyList])>>),
        assessment |-> Py([type |-> S("quiz"),
                           description |-> StrV(<<"Test your understanding of ">> \o topic \o <<" basics.">>)])])

\* lines 2903-2910: lesson j of module i (both counted from 1)
ProcessedLesson(lesson, i, j) ==
    Py([id |-> Or(Get(lesson, "id"), StrV(<<"lesson_", Now, "_">> \o Dec(i) \o <<"_">> \o Dec(j))),
        title |-> Or(Get(lesson, "title"), StrV(<<"Lesson ">> \o Dec(j))),
        description |-> Or(Get(lesson, "description"), StrV(<<"A lesson in Module ">> \o Dec(i))),
        contentSummary |->
            Or(Get(lesson, "contentSummary"),
               Or(Get(lesson, "content"),
                  StrV(<<"Content for ">> \o
                       (IF Has(lesson, "title") THEN Fmt(Get(lesson, "title"))
                        ELSE <<"Lesson ">> \o Dec(j))))),
        estimatedDuration |-> Or(Get(lesson, "estimatedDuration"), Sixty),
        resources |-> Or(Get(lesson, "resources"), EmptyList)])

\* lines 2898-2911: the lessons that are mappings, processed, from index j
RECURSIVE ProcessedLessons(_, _, _)
ProcessedLessons(lessons, i, j) ==
    IF j > Len(lessons) THEN <<>>
    ELSE (IF IsDict(lessons[j]) THEN <<ProcessedLesson(lessons[j], i, j)>> ELSE <<>>)
         \o ProcessedLessons(lessons, i, j + 1)

\* ProcessedModule with a plausible slip: a module without usable lessons
\* is given an empty list of lessons
ProcessedModuleNoLessons(module, i, topic) ==
    Py([id |-> Or(Get(module, "id"), StrV(<<"module_", Now, "_">> \o Dec(i))),
        title |-> Or(Get(module, "title"), Or(Get(module, "name"), StrV(<<"Module ">> \o Dec(i)))),
        description |-> Or(Get(module, "description"),
                           StrV(<<"A module in the ">> \o topic \o <<" course.">>)),
        assessment |-> Or(Get(module, "assessment"),
                          Py([type |-> S("quiz"),
                              description |-> StrV(<<"Assessment for Module ">> \o Dec(i))])),
        lessons |->
            IF ~Truthy(Get(module, "lessons")) \/ ~IsList(Get(module, "lessons"))
            THEN EmptyList
            ELSE ListV(ProcessedLessons(Get(module, "lessons").v, i, 1))])

\* lines 2873-2915: module i (counted from 1)
ProcessedModule(module, i, topic) ==
    LET title == Or(Get(module, "title"), Or(Get(module, "name"), StrV(<<"Module ">> \o Dec(i))))
        lessons == Get(module, "lessons")
    IN Py([id |-> Or(Get(module, "id"), StrV(<<"module_", Now, "_">> \o Dec(i))),
           title |-> title,
           description |-> Or(Get(module, "description"),
                              StrV(<<"A module in the ">> \o topic \o <<" course.">>)),
           assessment |-> Or(Get(module, "assessment"),
                             Py([type |-> S("quiz"),
                                 description |-> StrV(<<"Assessment for Module ">> \o Dec(i))])),
           lessons |->
               IF ~Truthy(lessons) \/ ~IsList(lessons)
               THEN ListV(<<Py([id |-> StrV(<<"lesson_", Now, "_">> \o Dec(i) \o <<"_1">>),
                                title |-> StrV(<<"Lesson 1 in ">> \o Fmt(title)),
                                description |-> S("Introduction to key concepts"),
                                contentSummary |-> StrV(<<"This lesson covers important ">> \o topic \o <<" concepts.">>),
                                estimatedDuration |-> Sixty,
                                resources |-> EmptyList])>>)
               ELSE ListV(ProcessedLessons(lessons.v, i, 1))])

\* lines 2868-2915: the modules that are mappings, processed, from index i
RECURSIVE ProcessedModules(_, _, _)
ProcessedModules(modules, i, topic) ==
    IF i > Len(modules) THEN <<>>
    ELSE (IF IsDict(modules[i]) THEN <<ProcessedModule(modules[i], i, topic)>> ELSE <<>>)
         \o ProcessedModules(modules, i + 1, topic)

\* lines 2813-2824: course_data after the title and the description are
\* settled; a mapping passed in is written to in place
CourseDataChecked(course_data, topic, difficulty) ==
    LET cd0 == IF IsDict(course_data) THEN course_data ELSE EmptyDict
        cd1 == IF ~Truthy(Get(cd0, "title")) \/ ~IsStr(Get(cd0, "title"))
               THEN Set(cd0, "title", StrV(<<"Course on ">> \o topic))
               ELSE cd0
    IN IF ~Truthy(Get(cd1, "description")) \/ ~IsStr(Get(cd1, "description"))
       THEN Set(cd1, "description",
                StrV(<<"A comprehensive course about ">> \o topic \o <<" for ">>
                     \o difficulty \o <<" level learners.">>))
       ELSE cd1

\* CourseModules with a plausible slip: the closing check for an empty list
\* of modules is left out
CourseModulesUnchecked(mods, topic) ==
    IF ~Truthy(mods) \/ ~IsList(mods) \/ Len(mods.v) = 0
    THEN <<DefaultModule(topic)>>
    ELSE ProcessedModules(mods.v, 1, topic)

\* lines 2842-2942: the modules of the course returned
CourseModules(mods, topic) ==
    LET processed ==
            IF ~Truthy(mods) \/ ~IsList(mods) \/ Len(mods.v) = 0
            THEN <<DefaultModule(topic)>>
            ELSE ProcessedModules(mods.v, 1, topic)
    IN IF Len(processed) = 0 THEN <<DefaultModule(topic)>> ELSE processed

\* the value ensure_course_json_format returns
ensure_course_json_format(course_data, topic, difficulty, duration) ==
    LET cd == CourseDataChecked(course_data, topic, difficulty)
    IN Py([id |-> Or(Get(cd, "id"), StrV(<<"course_", Now>>)),
           title |-> Get(cd, "title"),
           description |-> Get(cd, "description"),
           topic |-> Or(Get(cd, "topic"), StrV(topic)),
           difficulty |-> Or(Get(cd, "difficulty"), StrV(difficulty)),
           duration |-> Or(Get(cd, "duration"), StrV(duration)),
           createdAt |-> Or(Get(cd, "createdAt"), S(IsoNow)),
           updatedAt |-> Or(Get(cd, "updatedAt"), S(IsoNow)),
           prerequisites |-> Or(Get(cd, "prerequisites"), EmptyList),
           learningGoals |-> Or(Get(cd, "learningGoals"),
                                Or(Get(cd, "learningObjectives"), EmptyList)),
           assessment |-> Or(Get(cd, "assessment"), EmptyList),
           modules |-> ListV(CourseModules(Get(cd, "modules"), topic))])

\* the request the normalizer is called for
Topic == <<"T">>
Difficulty == <<"beginner">>
Duration == <<"4-weeks">>

\* One call of ensure_course_json_format on data.
EnsureCourseJsonFormat ==
    /\ handler = "ensure_course_json_format"
    /\ hpc = "call"
    /\ out' = ensure_course_json_format(data, Topic, Difficulty, Duration)
    /\ data' = IF IsDict(data) THEN CourseDataChecked(data, Topic, Difficulty) ELSE data
    /\ hpc' = "returned"
    /\ calls' = Append(calls, Call("ensure_course_json_format", data))
    /\ UNCHANGED <<xvars, handler, resp>>

\* ------------------------------------------------- validate_course_structure

\* lines 353-362: lesson j (counted from 1) of a module
StructuredLesson(lesson, j) ==
    IF ~IsDict(lesson)
    THEN Py([title |-> StrV(<<"Lesson ">> \o Dec(j)), content |-> StrV(<<>>)])
    ELSE LET l1 == IF ~Has(lesson, "title")
                   THEN Set(lesson, "title", StrV(<<"Lesson ">> \o Dec(j)))
                   ELSE lesson
         IN IF ~Has(l1, "content") THEN Set(l1, "content", StrV(<<>>)) ELSE l1

\* lines 338-362: module i (counted from 1)
StructuredModule(module, i) ==
    IF ~IsDict(module)
    THEN Py([title |-> StrV(<<"Module ">> \o Dec(i)), lessons |-> EmptyList])
    ELSE LET m1 == IF ~Has(module, "title")
                   THEN Set(module, "title", StrV(<<"Module ">> \o Dec(i)))
                   ELSE module
             m2 == IF ~Has(m1, "description")
                   THEN Set(m1, "description",
                            StrV(<<"Description for ">> \o Fmt(Get(m1, "title"))))
                   ELSE m1
             m3 == IF ~Has(m2, "lessons") \/ ~IsList(Get(m2, "lessons"))
                   THEN Set(m2, "lessons", EmptyList)
                   ELSE m2
             ls == Get(m3, "lessons").v
         IN Set(m3, "lessons", ListV([j \in 1..Len(ls) |-> StructuredLesson(ls[j], j)]))

\* the mapping validate_course_structure returns, which is its argument
\* written to in place when that is a mapping
validate_course_structure(d) ==
    LET d0 == IF IsDict(d) THEN d
              ELSE Py([title |-> S("Untitled Course"), modules |-> EmptyList])
        d1 == IF ~Has(d0, "title") THEN Set(d0, "title", S("Untitled Course")) ELSE d0
        d2 == IF ~Has(d1, "description")
              THEN Set(d1, "description", S("No description provided."))
              ELSE d1
        d3 == IF ~Has(d2, "modules") THEN Set(d2, "modules", EmptyList) ELSE d2
        ms == Get(d3, "modules")
    IN IF IsList(ms)
       THEN Set(d3, "modules", ListV([i \in 1..Len(ms.v) |-> StructuredModule(ms.v[i], i)]))
       ELSE d3

\* One call of validate_course_structure on data.
ValidateCourseStructure ==
    /\ handler = "validate_course_structure"
    /\ hpc = "call"
    /\ out' = validate_course_structure(data)
    /\ data' = IF IsDict(data) THEN validate_course_structure(data) ELSE data
    /\ hpc' = "returned"
    /\ calls' = Append(calls, Call("validate_course_structure", data))
    /\ UNCHANGED <<xvars, handler, resp>>

\* --------------------------------------------- validate_assessment_questions

\* lines 379-401: the canned questions of the validator
ValidatorDefaultQuestions ==
    <<Py([id |-> StrV(<<"q_", Uuid>>),
          question |-> S("How would you rate your familiarity with this topic?"),
          options |-> ListV(<<S("Not familiar at all"), S("Somewhat familiar"),
                              S("Moderately familiar"), S("Very familiar"), S("Expert level")>>),
          type |-> S("multiple_choice"),
          category |-> S("prior_experience")]),
      Py([id |-> StrV(<<"q_", Uuid>>),
          question |-> S("How do you prefer to learn new concepts?"),
          options |-> ListV(<<S("Reading text"), S("Watching videos"), S("Hands-on practice"),
                              S("Structured tutorials"), S("Open exploration")>>),
          type |-> S("multiple_choice"),
          category |-> S("learning_style")]),
      Py([id |-> StrV(<<"q_", Uuid>>),
          question |-> S("What is your primary goal for learning this topic?"),
          options |-> ListV(<<S("Professional development"), S("Academic requirement"),
                              S("Personal interest"), S("Specific project"), S("General knowledge")>>),
          type |-> S("multiple_choice"),
          category |-> S("goals")])>>

FourOptions == ListV(<<S("Option A"), S("Option B"), S("Option C"), S("Option D")>>)

\* ValidatedQuestion with a plausible slip: the options of a question that
\* is a mapping are left as they came
ValidatedQuestionOptionsKept(question, i) ==
    IF ~IsDict(question)
    THEN Py([id |-> StrV(<<"q_">> \o Dec(i) \o <<"_", Uuid>>),
             question |-> StrV(<<"Question ">> \o Dec(i)),
             options |-> FourOptions,
             type |-> S("multiple_choice"),
             category |-> S("general_knowledge")])
    ELSE LET q1 == IF ~Has(question, "id")
                   THEN Set(question, "id", StrV(<<"q_">> \o Dec(i) \o <<"_", Uuid>>))
                   ELSE question
             q2 == IF ~Has(q1, "question") \/ ~Truthy(Get(q1, "question"))
                   THEN Set(q1, "question", StrV(<<"Question ">> \o Dec(i)))
                   ELSE q1
             q4 == IF ~Has(q2, "type") THEN Set(q2, "type", S("multiple_choice")) ELSE q2
         IN IF ~Has(q4, "category") THEN Set(q4, "category", S("general_knowledge")) ELSE q4

\* lines 405-429: question i (counted from 1) with its required fields
ValidatedQuestion(question, i) ==
    IF ~IsDict(question)
    THEN Py([id |-> StrV(<<"q_">> \o Dec(i) \o <<"_", Uuid>>),
             question |-> StrV(<<"Question ">> \o Dec(i)),
             options |-> FourOptions,
             type |-> S("multiple_choice"),
             category |-> S("general_knowledge")])
    ELSE LET q1 == IF ~Has(question, "id")
                   THEN Set(question, "id", StrV(<<"q_">> \o Dec(i) \o <<"_", Uuid>>))
                   ELSE question
             q2 == IF ~Has(q1, "question") \/ ~Truthy(Get(q1, "question"))
                   THEN Set(q1, "question", StrV(<<"Question ">> \o Dec(i)))
                   ELSE q1
             q3 == IF ~Has(q2, "options") \/ ~IsList(Get(q2, "options"))
                      \/ Len(Get(q2, "options").v) < 2
                   THEN Set(q2, "options", FourOptions)
                   ELSE q2
             q4 == IF ~Has(q3, "type") THEN Set(q3, "type", S("multiple_choice")) ELSE q3
         IN IF ~Has(q4, "category") THEN Set(q4, "category", S("general_knowledge")) ELSE q4

\* the mapping validate_assessment_questions returns, which is its argument
\* written to in place when that is a mapping
validate_assessment_questions(d) ==
    LET d0 == IF IsDict(d) THEN d ELSE Py([questions |-> EmptyList])
        d1 == IF ~Has(d0, "questions") \/ ~IsList(Get(d0, "questions"))
                 \/ Len(Get(d0, "questions").v) = 0
              THEN Set(d0, "questions", ListV(ValidatorDefaultQuestions))
              ELSE d0
        qs == Get(d1, "questions").v
    IN Set(d1, "questions", ListV([i \in 1..Len(qs) |-> ValidatedQuestion(qs[i], i)]))

\* One call of validate_assessment_questions on data.
ValidateAssessmentQuestions ==
    /\ handler = "validate_assessment_questions"
    /\ hpc = "call"
    /\ out' = validate_assessment_questions(data)
    /\ data' = IF IsDict(data) THEN validate_assessment_questions(data) ELSE data
    /\ hpc' = "returned"
    /\ calls' = Append(calls, Call("validate_assessment_questions", data))
    /\ UNCHANGED <<xvars, handler, resp>>

\* ------------------------------------------- specifications: the normalizers

\* longest list of modules and longest list of questions in an input
MaxModules == 2
MaxQuestions == 2

\* absent from a mapping
Absent == [t |-> "absent", v |-> <<>>]

\* the mapping payloads that give each key of keys one of its candidate
\* values in cand, or leave it out where the candidate is Absent
RECURSIVE Payloads(_, _)
Payloads(cand, keys) ==
    IF keys = {} THEN {<<>>}
    ELSE LET f == CHOOSE k \in keys : TRUE IN
         {IF x = Absent THEN m ELSE DictSet(m, K(f), x) :
             m \in Payloads(cand, keys \ {f}), x \in cand[f]}

Mappings(cand) == {DictV(m) : m \in Payloads(cand, DOMAIN cand)}

\* values that are no mapping
Scalars == {NoneV, S("x"), IntV(<<"1">>), EmptyList, ListV(<<EmptyDict>>)}

LessonLists ==
    {EmptyList,
     ListV(<<IntV(<<"1">>)>>),
     ListV(<<EmptyDict>>),
     ListV(<<Py([title |-> S("x"), content |-> S("c")])>>),
     ListV(<<IntV(<<"1">>), Py([title |-> NoneV])>>)}

ModuleInputs ==
    {IntV(<<"1">>), Py([name |-> S("n")])}
    \cup Mappings([id |-> {Absent, S("m")},
                   title |-> {Absent, S("x")},
                   lessons |-> {Absent, S("x")} \cup LessonLists])

CourseInputs ==
    Scalars \cup {ErrorSentinel}
    \cup Mappings([title |-> {Absent, StrV(<<>>), S("x"), IntV(<<"1">>)},
                   description |-> {Absent, NoneV, S("x")},
                   modules |-> {Absent, NoneV, S("x")}
                               \cup {ListV(q) : q \in SeqsUpTo(ModuleInputs, MaxModules)}])

QuestionCore ==
    Mappings([id |-> {Absent, S("q1")},
              question |-> {Absent, StrV(<<>>), S("x")},
              options |-> {Absent, S("x"), ListV(<<S("a")>>), ListV(<<S("a"), S("b")>>)}])

QuestionInputs ==
    {IntV(<<"1">>), Py([answer |-> S("a")])}
    \cup QuestionCore
    \cup {Set(Set(q, "type", S("true_false")), "category", S("goals")) : q \in QuestionCore}

AssessmentInputs ==
    Scalars \cup {ErrorSentinel}
    \cup Mappings([questions |-> {Absent, NoneV, S("x")}
                                 \cup {ListV(q) : q \in SeqsUpTo(QuestionInputs, MaxQuestions)},
                   totalPoints |-> {Absent, IntV(<<"1">>)}])

\* no text under extraction: a normalizer called on its own
NoText ==
    /\ text = <<>>
    /\ pc = "idle"
    /\ result = NoneV
    /\ tried = <<>>

InitCourse ==
    /\ NoText
    /\ handler \in {"ensure_course_json_format", "validate_course_structure"}
    /\ hpc = "call"
    /\ data \in CourseInputs
    /\ out = Unset
    /\ resp = Unset
    /\ calls = <<>>

NextCourse == EnsureCourseJsonFormat \/ ValidateCourseStructure

SpecCourse == InitCourse /\ [][NextCourse]_vars

InitQuestions ==
    /\ NoText
    /\ handler = "validate_assessment_questions"
    /\ hpc = "call"
    /\ data \in AssessmentInputs
    /\ out = Unset
    /\ resp = Unset
    /\ calls = <<>>

NextQuestions == ValidateAssessmentQuestions

SpecQuestions == InitQuestions /\ [][NextQuestions]_vars

\* ---------------------------------------------- extract_questions_from_text

\* the least index >= i of a symbol of s outside cs, 0 when there is none
RECURSIVE SkipFrom(_, _, _)
SkipFrom(s, cs, i) ==
    IF i > Len(s) THEN 0
    ELSE IF s[i] \notin cs THEN i
    ELSE SkipFrom(s, cs, i + 1)

\* the greatest index <= i of a symbol of s outside cs, 0 when there is none
RECURSIVE SkipBack(_, _, _)
SkipBack(s, cs, i) ==
    IF i < 1 THEN 0
    ELSE IF s[i] \notin cs THEN i
    ELSE SkipBack(s, cs, i - 1)

\* s.strip(cs)
Strip(s, cs) ==
    LET i == SkipFrom(s, cs, 1) IN
    IF i = 0 THEN <<>> ELSE SubSeq(s, i, SkipBack(s, cs, Len(s)))

\* s.split('\n')
RECURSIVE SplitLines(_)
SplitLines(s) ==
    LET n == FindFrom(s, {Newline}, 1) IN
    IF n = 0 THEN <<s>>
    ELSE <<Slice(s, 1, n - 1)>> \o SplitLines(Slice(s, n + 1, Len(s)))

\* s.lower(), symbol by symbol
Lower(c) ==
    CASE c = "A" -> "a"
      [] c = "B" -> "b"
      [] c = "C" -> "c"
      [] c = "D" -> "d"
      [] c = "True" -> "true"
      [] c = "False" -> "false"
      [] c = "Answer" -> "answer"
      [] c = "Question" -> "question"
      [] c = "How" -> "how"
      [] OTHER -> c

LowerText(s) == [i \in 1..Len(s) |-> Lower(s[i])]

\* w in s
Contains(s, w) == \E i \in 1..(Len(s) - Len(w) + 1) : SubSeq(s, i, i + Len(w) - 1) = w

\* the index after the run of digits that starts at i
RECURSIVE DigitsEnd(_, _)
DigitsEnd(s, i) == IF i <= Len(s) /\ s[i] \in Digits THEN DigitsEnd(s, i + 1) ELSE i

IsWs(s, i) == i <= Len(s) /\ s[i] \in Whitespace

NoQuestion == [found |-> FALSE, number |-> <<>>, body |-> <<>>]

\* line 1138, on a stripped line: ^\s*(\d+)[\.\)]\s+(.*) or else
\* ^\s*Question\s+(\d+)[\.\:]?\s+(.*); number is group 1 and body group 2
QuestionMatch(line) ==
    LET e == DigitsEnd(line, 1) IN
    IF e > 1 /\ e <= Len(line) /\ line[e] \in {".", ")"} /\ IsWs(line, e + 1)
    THEN [found |-> TRUE, number |-> SubSeq(line, 1, e - 1),
          body |-> Slice(line, SkipWs(line, e + 1), Len(line))]
    ELSE IF Len(line) >= 1 /\ line[1] = "Question" /\ IsWs(line, 2)
    THEN LET d == SkipWs(line, 2)
             f == DigitsEnd(line, d)
             p == IF f <= Len(line) /\ line[f] \in {".", ":"} THEN f + 1 ELSE f
         IN IF f > d /\ IsWs(line, p)
            THEN [found |-> TRUE, number |-> SubSeq(line, d, f - 1),
                  body |-> Slice(line, SkipWs(line, p), Len(line))]
            ELSE NoQuestion
    ELSE NoQuestion

\* lines 1156-1167: the categories in the order they are tried, each with
\* its keywords
CategoryWords ==
    <<[category |-> "preferences",
       words |-> {<<"prefer">>, <<"like">>, <<"enjoy">>, <<"rather">>}],
      [category |-> "learning_style",
       words |-> {<<"learning", " ", "style">>, <<"learn", " ", "best">>, <<"absorb">>}],
      [category |-> "time_availability",
       words |-> {<<"time">>, <<"hours">>, <<"schedule">>, <<"spend">>}],
      [category |-> "prior_experience",
       words |-> {<<"experience">>, <<"familiar">>, <<"knowledge">>, <<"understand">>}],
      [category |-> "challenges",
       words |-> {<<"challenge">>, <<"difficult">>, <<"struggle">>, <<"hard">>}],
      [category |-> "goals",
       words |-> {<<"goal">>, <<"achieve">>, <<"want", " ", "to">>, <<"aim">>}]>>

Matches(question_text, k) == \E w \in CategoryWords[k].words : Contains(question_text, w)

Category(question_text) ==
    IF \E k \in 1..Len(CategoryWords) : Matches(question_text, k)
    THEN CategoryWords[CHOOSE k \in 1..Len(CategoryWords) :
                          /\ Matches(question_text, k)
                          /\ \A j \in 1..(k - 1) : ~Matches(question_text, j)].category
    ELSE "general_knowledge"

\* lines 1145-1167: the question a question line starts
NewQuestion(m) ==
    Py([id |-> StrV(<<"q_">> \o m.number),
        type |-> S("multiple_choice"),
        question |-> StrV(m.body),
        options |-> EmptyList,
        category |-> S(Category(LowerText(m.body))),
        weight |-> IntV(<<"1">>)])

OptionLetters == {"a", "b", "c", "d", "A", "B", "C", "D"}

\* line 1170: ^\s*[a-dA-D][\.\)]\s+
LetterOption(line) ==
    Len(line) >= 3 /\ line[1] \in OptionLetters /\ line[2] \in {".", ")"} /\ IsWs(line, 3)

\* line 1175: ^\s*[1-4][\.\)]\s+
NumberOption(line) ==
    Len(line) >= 3 /\ line[1] \in {"1", "2", "3", "4"} /\ line[2] \in {".", ")"} /\ IsWs(line, 3)

\* line 1178: \b(true|false)\b in the lowered line
TrueFalse(line) ==
    \E i \in 1..Len(line) :
        /\ Lower(line[i]) \in {"true", "false"}
        /\ i = 1 \/ line[i - 1] \notin WordSyms
        /\ i = Len(line) \/ line[i + 1] \notin WordSyms

\* answer[\s\:]+ at index i, case ignored
AnswerAt(line, i) ==
    Lower(line[i]) = "answer" /\ i < Len(line) /\ line[i + 1] \in Whitespace \cup {":"}

\* line 1184
AnswerLine(line) ==
    \/ \E i \in 1..Len(line) : AnswerAt(line, i)
    \/ Len(line) >= 4 /\ SubSeq(line, 1, 4) = <<"*", "*", "Answer", ":">>

\* lines 1186-1187: what follows the last answer marker and the run of
\* whitespace and colons after it, stripped of stars and spaces
AnswerText(line) ==
    IF \E i \in 1..Len(line) : AnswerAt(line, i)
    THEN LET i == CHOOSE i \in 1..Len(line) :
                    AnswerAt(line, i) /\ \A j \in (i + 1)..Len(line) : ~AnswerAt(line, j)
             k == SkipFrom(line, Whitespace \cup {":"}, i + 1)
         IN Strip(IF k = 0 THEN <<>> ELSE SubSeq(line, k, Len(line)), {"*", " "})
    ELSE Strip(line, {"*", " "})

LetterIndex(c) ==
    CASE Lower(c) = "a" -> 0 [] Lower(c) = "b" -> 1 [] Lower(c) = "c" -> 2 [] Lower(c) = "d" -> 3

\* the answer line as it would be read if a letter were never resolved to
\* its option
AnsweredLetterKept(cur, line) == Set(cur, "correctAnswer", StrV(AnswerText(line)))

\* lines 1186-1194: the current question after an answer line
Answered(cur, line) ==
    LET answer_text == AnswerText(line)
        options == Get(cur, "options").v
    IN IF Len(answer_text) = 1 /\ answer_text[1] \in OptionLetters
          /\ LetterIndex(answer_text[1]) < Len(options)
       THEN Set(cur, "correctAnswer", options[LetterIndex(answer_text[1]) + 1])
       ELSE Set(cur, "correctAnswer", StrV(answer_text))

\* lines 1132-1194: the loop over the lines from line k on; questions are the
\* questions emitted so far and cur the current question (None before the
\* first)
RECURSIVE ScanLines(_, _, _, _)
ScanLines(lines, k, questions, cur) ==
    IF k > Len(lines) THEN [questions |-> questions, cur |-> cur]
    ELSE LET line == Strip(lines[k], Whitespace)
             m == QuestionMatch(line)
             options == Get(cur, "options")
         IN IF line = <<>> THEN ScanLines(lines, k + 1, questions, cur)
            ELSE IF m.found
            THEN ScanLines(lines, k + 1,
                           IF cur # NoneV /\ Truthy(options) THEN Append(questions, cur)
                           ELSE questions,
                           NewQuestion(m))
            ELSE IF cur # NoneV /\ LetterOption(line)
            THEN ScanLines(lines, k + 1, questions,
                           Set(Set(cur, "type", S("multiple_choice")),
                               "options", ListV(Append(options.v, StrV(line)))))
            ELSE IF cur # NoneV /\ NumberOption(line) /\ Len(options.v) < 4
            THEN ScanLines(lines, k + 1, questions,
                           Set(cur, "options", ListV(Append(options.v, StrV(line)))))
            ELSE IF cur # NoneV /\ TrueFalse(line)
            THEN ScanLines(lines, k + 1, questions,
                           LET c == Set(cur, "type", S("true_false")) IN
                           IF ~Truthy(options)
                           THEN Set(c, "options", ListV(<<S("True"), S("False")>>))
                           ELSE c)
            ELSE IF cur # NoneV /\ AnswerLine(line)
            THEN ScanLines(lines, k + 1, questions, Answered(cur, line))
            ELSE ScanLines(lines, k + 1, questions, cur)

\* the list as it would be returned without the default of lines 1200-1204
extract_questions_undefaulted(s) ==
    LET r == ScanLines(SplitLines(s), 1, <<>>, NoneV)
    IN IF r.cur # NoneV /\ Truthy(Get(r.cur, "options"))
       THEN Append(r.questions, r.cur)
       ELSE r.questions

\* the list as it would be returned if the last question were emitted
\* whether or not it had collected an option
extract_questions_last_kept(s) ==
    LET r == ScanLines(SplitLines(s), 1, <<>>, NoneV)
        all == IF r.cur # NoneV THEN Append(r.questions, r.cur) ELSE r.questions
    IN [k \in 1..Len(all) |->
           IF ~Truthy(Get(all[k], "correctAnswer")) /\ Truthy(Get(all[k], "options"))
           THEN Set(all[k], "correctAnswer", Get(all[k], "options").v[1])
           ELSE all[k]]

\* the list extract_questions_from_text returns
extract_questions_from_text(s) ==
    LET r == ScanLines(SplitLines(s), 1, <<>>, NoneV)
        all == IF r.cur # NoneV /\ Truthy(Get(r.cur, "options"))
               THEN Append(r.questions, r.cur)
               ELSE r.questions
    IN [k \in 1..Len(all) |->
           IF ~Truthy(Get(all[k], "correctAnswer")) /\ Truthy(Get(all[k], "options"))
           THEN Set(all[k], "correctAnswer", Get(all[k], "options").v[1])
           ELSE all[k]]

\* One call of extract_questions_from_text on text.
ExtractQuestionsFromText ==
    /\ handler = "extract_questions_from_text"
    /\ hpc = "call"
    /\ out' = ListV(extract_questions_from_text(text))
    /\ calls' = Append(calls, Call("extract_questions_from_text", StrV(text)))
    /\ hpc' = "returned"
    /\ UNCHANGED <<xvars, handler, data, resp>>

\* ------------------------------------- specification: questions in plain text

\* most lines of a text
MaxLines == 3

\* the lines a text is made of
QuestionLines ==
    {<<"1", ".", " ", "how", " ", "much", " ", "time">>,
     <<"2", ")", " ", "x">>,
     <<"5", ".", " ", "How", " ", "much", " ", "time", " ", "like">>,
     <<"Question", " ", "1", ":", " ", "prefer">>,
     <<"Question", " ", "2", " ", "learn", " ", "best">>,
     <<"A", ")", " ", "a">>,
     <<"b", ".", " ", "b">>,
     <<" ", "c", ")", " ", "x", " ">>,
     <<"Answer", ":", " ", "B">>,
     <<"*", "*", "Answer", ":", "*", "*", " ", "a">>,
     <<"correct", " ", "answer", " ", "True">>,
     <<"Answer", ":", " ", "False">>,
     <<"answer", ":">>,
     <<"True">>,
     <<"x">>,
     <<"1", ".">>,
     <<>>}

\* '\n'.join(lines)
RECURSIVE JoinLines(_)
JoinLines(lines) ==
    IF Len(lines) = 0 THEN <<>>
    ELSE IF Len(lines) = 1 THEN lines[1]
    ELSE lines[1] \o <<Newline>> \o JoinLines(Tail(lines))

QuestionTexts == {JoinLines(ls) : ls \in SeqsUpTo(QuestionLines, MaxLines)}

\* texts of one question line, one to three lettered option lines and an
\* answer line that names a letter
ChoiceTexts ==
    LET option == {<<"A", ")", " ", "a">>, <<"b", ".", " ", "b">>, <<" ", "c", ")", " ", "x", " ">>}
    IN {JoinLines(<<q>> \o os \o <<<<"Answer", ":", " ", letter>>>>) :
           q \in {<<"1", ".", " ", "how", " ", "much", " ", "time">>, <<"2", ")", " ", "x">>},
           os \in UNION {[1..n -> option] : n \in 1..MaxLines},
           letter \in {"a", "B", "d"}}

InitExtractQuestions ==
    /\ text \in QuestionTexts \cup ChoiceTexts
    /\ pc = "idle"
    /\ result = NoneV
    /\ tried = <<>>
    /\ handler = "extract_questions_from_text"
    /\ hpc = "call"
    /\ data = Unset
    /\ out = Unset
    /\ resp = Unset
    /\ calls = <<>>

NextExtractQuestions == ExtractQuestionsFromText

SpecExtractQuestions == InitExtractQuestions /\ [][NextExtractQuestions]_vars

\* ------------------------------------------------------- endpoint handlers

\* APIResponse (lines 184-188) as the mapping it serialises to
APIResponse(success, d, error, metadata) ==
    Py([success |-> BoolV(success), data |-> d, error |-> error, metadata |-> metadata])

\* str(e) of the exception caught
Message == "str(e)"

\* lines 996-1001, 1074-1079, 1102-1107: a list of questions with its totals
QuestionSet(questions) ==
    LET n == Len(questions) IN
    Py([questions |-> ListV(questions),
        totalPoints |-> IntV(Dec(n * 10)),
        timeLimit |-> StrV(Dec(IF n * 2 > 15 THEN n * 2 ELSE 15) \o <<" minutes">>),
        passingScore |-> IntV(Dec(n * 7))])

StockQuestion(id, question, options, answer, explanation, difficulty, category) ==
    Py([id |-> S(id),
        type |-> S("multiple_choice"),
        question |-> S(question),
        options |-> ListV([i \in 1..Len(options) |-> S(options[i])]),
        correctAnswer |-> S(answer),
        explanation |-> S(explanation),
        difficulty |-> S(difficulty),
        category |-> S(category)])

\* lines 1007-1073: the canned questions of the handler
HandlerDefaultQuestions ==
    <<StockQuestion("q1", "How do you prefer to learn new concepts?",
          <<"By watching videos and demonstrations",
            "By listening to explanations and discussions",
            "By reading detailed materials and documentation",
            "By hands-on practice and experimentation">>,
          "By watching videos and demonstrations",
          "This helps identify your primary learning style preference.",
          "easy", "learning_style"),
      StockQuestion("q2", "How much time can you dedicate to studying this topic each week?",
          <<"Less than 2 hours", "2-5 hours", "5-10 hours", "More than 10 hours">>,
          "2-5 hours",
          "This helps determine appropriate course pacing and content volume.",
          "easy", "time_availability"),
      StockQuestion("q3", "What is your current level of experience with this topic?",
          <<"Complete beginner with no prior knowledge", "Some basic understanding",
            "Intermediate knowledge", "Advanced knowledge">>,
          "Some basic understanding",
          "This helps tailor content to your knowledge level.",
          "easy", "prior_experience"),
      StockQuestion("q4", "What type of learning materials do you prefer?",
          <<"Video tutorials and demonstrations", "Interactive exercises and quizzes",
            "Comprehensive reading materials", "Practical projects and case studies">>,
          "Video tutorials and demonstrations",
          "This helps select appropriate content formats.",
          "easy", "preferences"),
      StockQuestion("q5", "What challenges do you typically face when learning something new?",
          <<"Maintaining focus and motivation", "Understanding complex or abstract concepts",
            "Finding time to practice consistently",
            "Applying concepts to real-world scenarios">>,
          "Finding time to practice consistently",
          "This helps address potential learning obstacles.",
          "medium", "challenges"),
      StockQuestion("q6", "At what pace do you prefer to learn?",
          <<"Intensive and fast-paced", "Steady and methodical",
            "Relaxed with plenty of time for review", "Variable depending on the topic">>,
          "Steady and methodical",
          "This helps determine appropriate pacing for course materials.",
          "easy", "goals")>>

\* lines 974-990: question i (counted from 1) of the validated assessment
FinishedQuestion(question, i) ==
    LET q1 == IF ~Truthy(Get(question, "id"))
              THEN Set(question, "id", StrV(<<"q">> \o Dec(i)))
              ELSE question
        q2 == IF ~Truthy(Get(q1, "difficulty")) THEN Set(q1, "difficulty", S("medium")) ELSE q1
        q3 == IF Get(q2, "type") = S("multiple_choice") /\ ~Truthy(Get(q2, "options"))
              THEN Set(q2, "options", FourOptions)
              ELSE q2
        q4 == IF ~Has(q3, "correctAnswer") /\ Has(q3, "answer")
              THEN Del(Set(q3, "correctAnswer", Get(q3, "answer")), "answer")
              ELSE q3
    IN IF ~Truthy(Get(q4, "explanation"))
       THEN Set(q4, "explanation", StrV(<<"Explanation for question ">> \o Dec(i)))
       ELSE q4

\* lines 972-990: the validated assessment with its questions finished
FinishedQuestions(validated) ==
    IF Has(validated, "questions") /\ IsList(Get(validated, "questions"))
    THEN Set(validated, "questions",
             ListV([i \in 1..Len(Get(validated, "questions").v) |->
                       FinishedQuestion(Get(validated, "questions").v[i], i)]))
    ELSE validated

\* line 993 (the text the agent returned is a string): whether the plain
\* text is read for questions
Reread(finished) == ~Truthy(Get(finished, "questions"))

\* lines 995-1001
Reextracted(finished, extracted) ==
    IF Len(extracted) > 0 THEN QuestionSet(extracted) ELSE finished

\* lines 1004-1090: the response for the assessment arrived at
AssessmentResponse(chosen) ==
    IF \/ ~Truthy(Get(chosen, "questions"))
       \/ ~IsList(Get(chosen, "questions"))
       \/ Len(Get(chosen, "questions").v) = 0
    THEN APIResponse(TRUE, QuestionSet(HandlerDefaultQuestions), NoneV,
             Py([timestamp |-> S(IsoNow),
                 note |-> S("Using default questions due to generation failure")]))
    ELSE APIResponse(TRUE, chosen, NoneV, Py([timestamp |-> S(IsoNow)]))

\* lines 993-1090, from the finished assessment on
AssessmentFrom(raw, parsed, finished) ==
    [resp |-> AssessmentResponse(IF Reread(finished)
                                 THEN Reextracted(finished, extract_questions_from_text(raw))
                                 ELSE finished),
     calls |-> <<Call("validate_assessment_questions", parsed)>>
               \o (IF Reread(finished)
                   THEN <<Call("extract_questions_from_text", StrV(raw))>>
                   ELSE <<>>)]

\* lines 966-1090 of generate_assessment: the response and the calls made
\* when clean_json_response has returned parsed for the text raw
AssessmentParsed(raw, parsed) ==
    AssessmentFrom(raw, parsed, FinishedQuestions(validate_assessment_questions(parsed)))

\* lines 1092-1120 of generate_assessment: the response and the calls made
\* when clean_json_response has raised
AssessmentSalvaged(raw) ==
    LET extracted == extract_questions_from_text(raw) IN
    [resp |->
        IF Len(extracted) > 0
        THEN APIResponse(TRUE,
                 Set(QuestionSet(extracted), "warning", S("Questions extracted from text format")),
                 NoneV, Py([timestamp |-> S(IsoNow)]))
        ELSE APIResponse(FALSE,
                 Py([raw_content |-> IF Len(raw) > 0 THEN StrV(raw) ELSE S("No content returned")]),
                 StrV(<<"Failed to parse assessment: ", Message>>),
                 Py([timestamp |-> S(IsoNow)])),
     calls |-> <<Call("extract_questions_from_text", StrV(raw))>>]

\* generate_assessment from the return of clean_json_response on
GenerateAssessment ==
    /\ handler = "generate_assessment"
    /\ hpc = "call"
    /\ pc \in {"done", "raised"}
    /\ IF pc = "raised"
       THEN /\ resp' = AssessmentSalvaged(text).resp
            /\ calls' = calls \o AssessmentSalvaged(text).calls
       ELSE /\ resp' = AssessmentParsed(text, result).resp
            /\ calls' = calls \o AssessmentParsed(text, result).calls
    /\ hpc' = "returned"
    /\ UNCHANGED <<xvars, handler, data, out>>

\* the request of /module/generate-lessons
LessonsRequest(module_name) ==
    Py([topic |-> StrV(Topic), module_name |-> module_name, module_description |-> S("D"),
        module_id |-> S("m1"), course_id |-> S("c1")])

\* line 1531
ValidRequest(request) ==
    /\ Truthy(Get(request, "topic"))
    /\ Truthy(Get(request, "module_name"))
    /\ Truthy(Get(request, "module_description"))

\* lines 1606-1634: the templated lessons
DefaultLessons(request) ==
    LET name == Fmt(Get(request, "module_name"))
        topic == Fmt(Get(request, "topic"))
    IN <<Py([id |-> StrV(<<"lesson_", Uuid>>),
             title |-> StrV(<<"Introduction to ">> \o name),
             content |-> StrV(<<"This lesson introduces key concepts of ">> \o name
                               \o <<" in the context of ">> \o topic \o <<".">>),
             order |-> IntV(<<"1">>),
             duration |-> IntV(<<"2">>),
             activities |-> ListV(<<StrV(<<"Explore basic ">> \o topic \o <<" concepts">>),
                                    S("Complete introductory exercises")>>),
             resources |-> EmptyList]),
         Py([id |-> StrV(<<"lesson_", Uuid>>),
             title |-> StrV(<<"Core Principles of ">> \o name),
             content |-> StrV(<<"Learn about the fundamental principles and approaches in ">>
                               \o name \o <<".">>),
             order |-> IntV(<<"2">>),
             duration |-> IntV(<<"2">>),
             activities |-> ListV(<<S("Apply concepts to practical examples"),
                                    S("Group discussion on key principles")>>),
             resources |-> EmptyList]),
         Py([id |-> StrV(<<"lesson_", Uuid>>),
             title |-> StrV(<<"Practical Applications of ">> \o name),
             content |-> StrV(<<"Explore real-world applications and case studies related to ">>
                               \o name \o <<".">>),
             order |-> IntV(<<"3">>),
             duration |-> IntV(<<"3">>),
             activities |-> ListV(<<S("Analyze case studies"), S("Work on practical exercises"),
                                    S("Reflection activity")>>),
             resources |-> EmptyList])>>

\* lines 1639-1655: lesson i (counted from 1), a mapping, with its fields
CompletedLesson(lesson, i, request) ==
    LET l1 == IF ~Has(lesson, "id")
              THEN Set(lesson, "id",
                       StrV(<<"lesson_">> \o Fmt(Get(request, "module_id")) \o <<"_">> \o Dec(i)))
              ELSE lesson
        l2 == IF ~Has(l1, "order") THEN Set(l1, "order", IntV(Dec(i))) ELSE l1
        l3 == IF ~Has(l2, "resources") THEN Set(l2, "resources", EmptyList) ELSE l2
        l4 == IF ~Has(l3, "activities") /\ Has(l3, "exercises")
              THEN Del(Set(l3, "activities", Get(l3, "exercises")), "exercises")
              ELSE IF ~Has(l3, "activities") THEN Set(l3, "activities", EmptyList)
              ELSE l3
        l5 == IF ~Has(l4, "duration") THEN Set(l4, "duration", IntV(<<"2">>)) ELSE l4
        l6 == IF ~Has(l5, "completed") THEN Set(l5, "completed", BoolV(FALSE)) ELSE l5
    IN IF ~Has(l6, "sessions") THEN Set(l6, "sessions", EmptyList) ELSE l6

\* lines 1668-1674
LessonsFailure ==
    APIResponse(FALSE, NoneV, StrV(<<"Failed to parse lessons: ", Message>>),
                Py([timestamp |-> S(IsoNow)]))

\* lines 1598-1666 of generate_module_lessons: the response when
\* clean_json_response has returned parsed.  Writing a field to a lesson that
\* is no mapping raises TypeError, and so does iterating lessons that are a
\* number; the lessons the texts explored can hold are of these kinds.
LessonsParsed(parsed, request) ==
    LET p == IF ~Truthy(parsed) \/ ~IsDict(parsed) \/ ~Truthy(Get(parsed, "lessons"))
             THEN Py([lessons |-> ListV(DefaultLessons(request))])
             ELSE parsed
        lessons == Get(p, "lessons")
    IN IF IsList(lessons) /\ \A i \in 1..Len(lessons.v) : IsDict(lessons.v[i])
       THEN APIResponse(TRUE,
                Set(p, "lessons",
                    ListV([i \in 1..Len(lessons.v) |-> CompletedLesson(lessons.v[i], i, request)])),
                NoneV,
                Py([timestamp |-> S(IsoNow),
                    courseId |-> Get(request, "course_id"),
                    moduleId |-> Get(request, "module_id")]))
       ELSE LessonsFailure

\* generate_module_lessons: a request that lacks a required field is turned
\* down before the agent is called (pc is idle: no text is under
\* extraction); otherwise from the return of clean_json_response on
GenerateModuleLessons ==
    /\ handler = "generate_module_lessons"
    /\ hpc = "call"
    /\ IF ValidRequest(data) THEN pc \in {"done", "raised"} ELSE pc = "idle"
    /\ resp' = IF ~ValidRequest(data)
               THEN APIResponse(FALSE, NoneV,
                        S("Missing required fields: topic, module_name, and module_description are required"),
                        Py([timestamp |-> S(IsoNow)]))
               ELSE IF pc = "raised" THEN LessonsFailure
               ELSE LessonsParsed(result, data)
    /\ hpc' = "returned"
    /\ UNCHANGED <<xvars, handler, data, out, calls>>

\* lines 2654-2655
LessonWithId(lesson, i, j) ==
    IF ~Has(lesson, "id") \/ ~Truthy(Get(lesson, "id"))
    THEN Set(lesson, "id", StrV(<<"lesson_", Now, "_">> \o Dec(i) \o <<"_">> \o Dec(j)))
    ELSE lesson

\* lines 2648-2655
ModuleWithIds(module, i) ==
    LET m1 == IF ~Has(module, "id") \/ ~Truthy(Get(module, "id"))
              THEN Set(module, "id", StrV(<<"module_", Now, "_">> \o Dec(i)))
              ELSE module
        ls == Get(m1, "lessons")
    IN IF Has(m1, "lessons") /\ IsList(ls)
       THEN Set(m1, "lessons", ListV([j \in 1..Len(ls.v) |-> LessonWithId(ls.v[j], i, j)]))
       ELSE m1

\* lines 2645-2655
CourseWithIds(course) ==
    LET ms == Get(course, "modules") IN
    IF Has(course, "modules") /\ IsList(ms)
    THEN Set(course, "modules", ListV([i \in 1..Len(ms.v) |-> ModuleWithIds(ms.v[i], i)]))
    ELSE course

\* lines 2671-2701
FallbackCourse ==
    Py([id |-> StrV(<<"course_", Now>>),
        title |-> StrV(<<"Course on ">> \o Topic),
        description |-> StrV(<<"A course about ">> \o Topic \o <<" for ">> \o Difficulty
                              \o <<" level learners.">>),
        topic |-> StrV(Topic),
        difficulty |-> StrV(Difficulty),
        duration |-> StrV(Duration),
        createdAt |-> S(IsoNow),
        updatedAt |-> S(IsoNow),
        modules |-> ListV(<<DefaultModule(Topic)>>)])

\* generate_course_with_persona from the return of clean_json_response on
GenerateCourseWithPersona ==
    /\ handler = "generate_course_with_persona"
    /\ hpc = "call"
    /\ pc \in {"done", "raised"}
    /\ IF pc = "raised"
       THEN /\ resp' = APIResponse(TRUE, FallbackCourse, NoneV,
                           Py([timestamp |-> S(IsoNow), status |-> IntV(<<"200">>),
                               statusText |-> S("OK"),
                               warning |-> S("Used fallback course structure due to parsing error")]))
            /\ UNCHANGED calls
       ELSE /\ resp' = APIResponse(TRUE,
                           CourseWithIds(ensure_course_json_format(result, Topic, Difficulty, Duration)),
                           NoneV,
                           Py([timestamp |-> S(IsoNow), status |-> IntV(<<"200">>),
                               statusText |-> S("OK")]))
            /\ calls' = Append(calls, Call("ensure_course_json_format", result))
    /\ hpc' = "returned"
    /\ UNCHANGED <<xvars, handler, data, out>>

\* lines 645-656: a lesson of /course/generate with its fields
CourseLesson(lesson, i, j) ==
    LET l1 == IF ~Has(lesson, "id")
              THEN Set(lesson, "id", StrV(<<"lesson_">> \o Dec(i) \o <<"_">> \o Dec(j)))
              ELSE lesson
        l2 == IF ~Has(l1, "completed") THEN Set(l1, "completed", BoolV(FALSE)) ELSE l1
        l3 == IF ~Has(l2, "progress") THEN Set(l2, "progress", IntV(<<"0">>)) ELSE l2
        l4 == IF ~Has(l3, "exercises") THEN Set(l3, "exercises", EmptyList) ELSE l3
        l5 == IF ~Has(l4, "resources") THEN Set(l4, "resources", EmptyList) ELSE l4
    IN IF ~Has(l5, "sessions") THEN Set(l5, "sessions", EmptyList) ELSE l5

\* lines 637-656: a module of /course/generate with its fields
CourseModule(module, i) ==
    LET m1 == IF ~Has(module, "id") THEN Set(module, "id", StrV(<<"module_">> \o Dec(i))) ELSE module
        m2 == IF ~Has(m1, "completed") THEN Set(m1, "completed", BoolV(FALSE)) ELSE m1
        m3 == IF ~Has(m2, "progress") THEN Set(m2, "progress", IntV(<<"0">>)) ELSE m2
        ls == Get(m3, "lessons")
    IN IF Has(m3, "lessons") /\ IsList(ls)
       THEN Set(m3, "lessons", ListV([j \in 1..Len(ls.v) |-> CourseLesson(ls.v[j], i, j)]))
       ELSE m3

\* lines 636-656 run without raising: writing a field to a module or a
\* lesson that is no mapping raises TypeError, and so does enumerating
\* modules or lessons that are None, a number or a boolean; a string or a
\* mapping is enumerated by its characters or keys, which are no mappings.
\* (A lesson that is a string naming all six fields would pass untouched;
\* the strings explored do not.)
Enumerable(xs) == (IsList(xs) /\ \A i \in 1..Len(xs.v) : IsDict(xs.v[i])) \/ xs \in {StrV(<<>>), EmptyDict}

CourseModulesWalk(parsed) ==
    LET ms == Get(parsed, "modules") IN
    /\ Enumerable(ms)
    /\ IsList(ms) => \A i \in 1..Len(ms.v) :
                        ~Has(ms.v[i], "lessons") \/ Enumerable(Get(ms.v[i], "lessons"))

\* lines 623-633: the fields of the course itself
CourseStamped(parsed) ==
    LET c1 == IF ~Has(parsed, "id") THEN Set(parsed, "id", S(Uuid)) ELSE parsed
        c2 == IF ~Has(c1, "createdAt") THEN Set(c1, "createdAt", S(IsoNow)) ELSE c1
        c3 == IF ~Has(c2, "updatedAt") THEN Set(c2, "updatedAt", S(IsoNow)) ELSE c2
    IN IF ~Has(c3, "user_id") THEN Set(c3, "user_id", S("system")) ELSE c3

\* lines 663-669
CourseFailure ==
    APIResponse(FALSE, NoneV, StrV(<<"Failed to parse course structure: ", Message>>),
                Py([timestamp |-> S(IsoNow)]))

\* lines 610-669 of generate_course: the response when clean_json_response
\* has returned parsed
CourseParsed(parsed) ==
    IF ~IsDict(parsed) \/ ~Truthy(Get(parsed, "modules"))
    THEN APIResponse(FALSE, NoneV, S("Failed to generate valid course structure"),
                     Py([timestamp |-> S(IsoNow)]))
    ELSE IF ~CourseModulesWalk(parsed) THEN CourseFailure
    ELSE LET ms == Get(parsed, "modules") IN
         APIResponse(TRUE,
             Set(CourseStamped(parsed), "modules",
                 ListV([i \in 1..Len(ms.v) |-> CourseModule(ms.v[i], i)])),
             NoneV, Py([timestamp |-> S(IsoNow)]))

\* generate_course from the return of clean_json_response on
GenerateCourse ==
    /\ handler = "generate_course"
    /\ hpc = "call"
    /\ pc \in {"done", "raised"}
    /\ resp' = IF pc = "raised" THEN CourseFailure ELSE CourseParsed(result)
    /\ hpc' = "returned"
    /\ UNCHANGED <<xvars, handler, data, out, calls>>

\* json.dumps: the text of a value, as an upstream model writes it
RECURSIVE Dumps(_)
RECURSIVE DumpElements(_, _)
RECURSIVE DumpItems(_, _)
Dumps(x) ==
    CASE x.t = "str" -> <<Quote>> \o x.v \o <<Quote>>
      [] x.t = "int" -> x.v
      [] x.t = "none" -> <<"null">>
      [] x.t = "bool" -> <<IF x.v = <<"True">> THEN "true" ELSE "false">>
      [] x.t = "list" -> <<"[">> \o DumpElements(x.v, 1) \o <<"]">>
      [] x.t = "dict" -> <<"{">> \o DumpItems(x.v, DOMAIN x.v) \o <<"}">>

DumpElements(xs, i) ==
    IF i > Len(xs) THEN <<>>
    ELSE (IF i > 1 THEN <<",", " ">> ELSE <<>>) \o Dumps(xs[i]) \o DumpElements(xs, i + 1)

DumpItems(m, keys) ==
    IF keys = {} THEN <<>>
    ELSE LET k == CHOOSE k \in keys : TRUE IN
         <<Quote>> \o k \o <<Quote, ":", " ">> \o Dumps(m[k])
         \o (IF keys = {k} THEN <<>> ELSE <<",", " ">>) \o DumpItems(m, keys \ {k})

\* what the agent may answer when asked for a persona
PersonaAnswers ==
    {NoneV, EmptyDict,
     Py([name |-> NoneV]),
     Py([name |-> S("x"), tone |-> StrV(<<>>), specialties |-> EmptyList]),
     Py([specialties |-> NoneV]),
     Py([specialties |-> ListV(<<IntV(<<"1">>)>>)]),
     Py([teachingPersona |-> Py([name |-> S("x")])]),
     Py([teachingPersona |-> IntV(<<"1">>)]),
     Py([name |-> S("x"), role |-> S("a"), specialties |-> ListV(<<S("b")>>),
         teachingStyle |-> S("c"), tone |-> S("d"), background |-> S("a"),
         characteristics |-> ListV(<<S("b")>>), supportingQualities |-> ListV(<<S("c")>>)])}

\* a text that makes clean_json_response raise, and one that makes it
\* return the error sentinel
RaisingText == Nest(RecursionLimit + 1)
SentinelText == <<"x">> \o Nest(RecursionLimit + 1) \o <<"]">>

PersonaTexts == {Dumps(a) : a \in PersonaAnswers} \cup {RaisingText}

\* what the agent may answer when asked for a user profile or a content
ContentTexts == {Dumps(NoneV), Dumps(Py([id |-> S("a")])), RaisingText, SentinelText}

\* lines 2268-2283: the templated persona
DefaultPersona ==
    Py([id |-> StrV(<<"persona_", Now>>),
        name |-> StrV(<<"AI Teacher for ">> \o Topic),
        description |-> StrV(<<"A helpful AI teacher focused on ">> \o Topic \o <<".">>),
        role |-> S("teacher"),
        specialties |-> ListV(<<StrV(Topic), S("Interactive Learning"), S("Personalized Education")>>),
        teachingStyle |-> S("Adaptive and responsive to learner needs"),
        tone |-> S("Supportive and encouraging"),
        background |-> StrV(<<"Specialized in teaching ">> \o Topic
                             \o <<" with a focus on practical applications">>),
        characteristics |-> ListV(<<S("Patient"), S("Clear"), S("Knowledgeable"), S("Adaptable"),
                                    S("Supportive")>>),
        supportingQualities |-> ListV(<<S("Clear explanations"), S("Practical examples"),
                                        S("Personalized feedback")>>),
        imageUrl |-> NoneV,
        createdAt |-> S(IsoNow),
        updatedAt |-> S(IsoNow),
        userProfileId |-> S("default")])

\* lines 2262-2283: the persona taken from the extracted value
PersonaChosen(parsed) ==
    IF ~IsDict(parsed) \/ ~Truthy(parsed) \/ Has(parsed, "teachingPersona")
    THEN IF IsDict(parsed) /\ Has(parsed, "teachingPersona") /\ IsDict(Get(parsed, "teachingPersona"))
         THEN Get(parsed, "teachingPersona")
         ELSE DefaultPersona
    ELSE parsed

\* lines 2287-2289, with imageUrl (2317) and userProfileId (2321)
PersonaFields ==
    <<"id", "name", "description", "role", "specialties", "teachingStyle", "tone", "background",
      "characteristics", "supportingQualities", "createdAt", "updatedAt", "imageUrl",
      "userProfileId">>

\* lines 2291-2322: the fields the persona lacks, from the first n of them
RECURSIVE PersonaFilled(_, _)
PersonaFilled(persona, n) ==
    IF n = 0 THEN persona
    ELSE LET p == PersonaFilled(persona, n - 1)
             field == PersonaFields[n]
         IN IF Has(p, field) THEN p ELSE Set(p, field, Get(DefaultPersona, field))

\* line 2347: ', '.join(persona['specialties']) raises TypeError unless the
\* value is a list of strings, a string or a mapping
Joinable(x) == IsStr(x) \/ IsDict(x) \/ (IsList(x) /\ \A i \in 1..Len(x.v) : IsStr(x.v[i]))

\* lines 2325-2339: the user profile, templated when none was extracted
ProfileChosen(parsed) ==
    IF ~IsDict(parsed) \/ ~Truthy(parsed)
    THEN Py([id |-> StrV(<<"profile_", Now>>),
             goals |-> ListV(<<S("Learn practical skills"), S("Understand core concepts"),
                               S("Apply knowledge effectively")>>),
             learningStyle |-> S("Mixed"),
             strengths |-> ListV(<<S("Self-motivated"), S("Technical aptitude"),
                                   S("Problem-solving")>>),
             weaknesses |-> ListV(<<S("Limited time availability"),
                                    S("Needs practical examples")>>),
             contentPreferences |-> ListV(<<S("Interactive exercises"), S("Real-world examples"),
                                            S("Visual aids")>>),
             timeAvailability |-> S("Limited"),
             background |-> S("Beginner"),
             interests |-> ListV(<<StrV(Topic)>>),
             createdAt |-> S(IsoNow),
             updatedAt |-> S(IsoNow)])
    ELSE parsed

\* lines 2376-2387: the first content, templated when none was extracted
ContentChosen(parsed, persona) ==
    IF ~IsDict(parsed) \/ ~Truthy(parsed)
    THEN Py([id |-> StrV(<<"content_", Now>>),
             personaId |-> Get(persona, "id"),
             title |-> StrV(<<"Introduction to ">> \o Topic),
             content |-> StrV(<<"This is an introduction to ">> \o Topic
                \o <<". The content will help you understand the fundamental concepts and practical applications.">>),
             topic |-> StrV(Topic),
             type |-> S("introduction"),
             createdAt |-> S(IsoNow),
             updatedAt |-> S(IsoNow)])
    ELSE parsed

\* the metadata of the persona endpoints (lines 2397-2401 and 2408-2412)
StatusOk == Py([timestamp |-> S(IsoNow), status |-> IntV(<<"200">>), statusText |-> S("OK")])
StatusError ==
    Py([timestamp |-> S(IsoNow), status |-> IntV(<<"500">>),
        statusText |-> S("Internal Server Error")])

\* lines 2403-2413: whatever is raised in generate_persona is answered so
PersonaFailure == APIResponse(FALSE, NoneV, S(Message), StatusError)

\* the agent is asked again and its answer t handed to clean_json_response
NextText(t) ==
    /\ text' = t
    /\ pc' = "direct"
    /\ result' = NoneV
    /\ tried' = <<>>

\* generate_persona, lines 2216-2256: the user profile has been extracted
\* and the agent is asked for the persona
PersonaProfiled ==
    /\ handler = "generate_persona"
    /\ hpc = "call"
    /\ pc \in {"done", "raised"}
    /\ IF pc = "raised"
       THEN /\ resp' = PersonaFailure
            /\ hpc' = "returned"
            /\ UNCHANGED <<xvars, data>>
       ELSE /\ data' = Py([userProfile |-> result])
            /\ \E t \in PersonaTexts : NextText(t)
            /\ hpc' = "persona"
            /\ UNCHANGED resp
    /\ UNCHANGED <<handler, out, calls>>

\* generate_persona, lines 2259-2370: the persona has been extracted and
\* completed, and the agent is asked for the first content
PersonaShaped ==
    /\ handler = "generate_persona"
    /\ hpc = "persona"
    /\ pc \in {"done", "raised"}
    /\ IF pc = "raised" \/ ~Joinable(Get(PersonaFilled(PersonaChosen(result), Len(PersonaFields)),
                                         "specialties"))
       THEN /\ resp' = PersonaFailure
            /\ hpc' = "returned"
            /\ UNCHANGED <<xvars, data>>
       ELSE /\ data' = Py([userProfile |-> ProfileChosen(Get(data, "userProfile")),
                           persona |-> PersonaFilled(PersonaChosen(result), Len(PersonaFields))])
            /\ \E t \in ContentTexts : NextText(t)
            /\ hpc' = "content"
            /\ UNCHANGED resp
    /\ UNCHANGED <<handler, out, calls>>

\* generate_persona, lines 2373-2413: the first content has been extracted
PersonaContented ==
    /\ handler = "generate_persona"
    /\ hpc = "content"
    /\ pc \in {"done", "raised"}
    /\ resp' = IF pc = "raised" THEN PersonaFailure
               ELSE APIResponse(TRUE,
                        Py([userProfile |-> Get(data, "userProfile"),
                            persona |-> Get(data, "persona"),
                            initialContent |-> ContentChosen(result, Get(data, "persona"))]),
                        NoneV, StatusOk)
    /\ hpc' = "returned"
    /\ UNCHANGED <<xvars, handler, data, out, calls>>

\* update_persona, lines 2453-2474: the extracted value is the data
UpdatePersona ==
    /\ handler = "update_persona"
    /\ hpc = "call"
    /\ pc \in {"done", "raised"}
    /\ resp' = IF pc = "raised" THEN PersonaFailure ELSE APIResponse(TRUE, result, NoneV, StatusOk)
    /\ hpc' = "returned"
    /\ UNCHANGED <<xvars, handler, data, out, calls>>

\* result[:1000] if result else "No content returned" (lines 771, 1118);
\* the texts explored are shorter than the cut
RawContent(raw) == IF Len(raw) > 0 THEN StrV(raw) ELSE S("No content returned")

Stamp == Py([timestamp |-> S(IsoNow)])

\* the request of /content/generate: its type is one pydantic lets through
ContentRequest(type) == Py([topic |-> StrV(Topic), type |-> S(type), context |-> NoneV])

\* if key not in d: d[key] = value (lines 756-757, 1859-1860, 2002-2003)
WithDefault(d, key, value) == IF ~Has(d, key) THEN Set(d, key, value) ELSE d

\* lines 758-759: visual content without code takes its content as code
VisualContent(p) ==
    IF ~Has(p, "code") /\ Has(p, "content") THEN Set(p, "code", Get(p, "content")) ELSE p

\* generate_content (lines 676-777) from the return of clean_json_response
\* on; without a context the visual type is "diagram" (line 694)
GenerateContent ==
    /\ handler = "generate_content"
    /\ hpc = "call"
    /\ pc \in {"done", "raised"}
    /\ resp' =
         IF pc = "raised"
         THEN APIResponse(FALSE, Py([raw_content |-> RawContent(text)]),
                          StrV(<<"Failed to parse content: ", Message>>), Stamp)
         ELSE IF Get(data, "type") = S("visual") /\ IsDict(result)
         THEN APIResponse(TRUE, VisualContent(WithDefault(result, "type", S("diagram"))),
                          NoneV, Stamp)
         ELSE APIResponse(TRUE, result, NoneV, Stamp)
    /\ hpc' = "returned"
    /\ UNCHANGED <<xvars, handler, data, out, calls>>

\* chat as it would be if the parse error were reported in the error field
\* of the success envelope
ChatErrorKept ==
    /\ handler = "chat"
    /\ hpc = "call"
    /\ pc \in {"done", "raised"}
    /\ resp' =
         IF pc = "raised"
         THEN APIResponse(TRUE, Py([response |-> StrV(text), type |-> S("raw")]), S(Message),
                          Py([timestamp |-> S(IsoNow), parsing_error |-> S(Message)]))
         ELSE IF IsDict(result) /\ Has(result, "content")
         THEN APIResponse(TRUE,
                  Py([response |-> Get(result, "content"), type |-> S("explanation")]),
                  NoneV, Stamp)
         ELSE IF IsStr(result)
         THEN APIResponse(TRUE, Py([response |-> result, type |-> S("explanation")]), NoneV, Stamp)
         ELSE APIResponse(TRUE, result, NoneV, Stamp)
    /\ hpc' = "returned"
    /\ UNCHANGED <<xvars, handler, data, out, calls>>

\* chat (lines 780-856) from the return of clean_json_response on
Chat ==
    /\ handler = "chat"
    /\ hpc = "call"
    /\ pc \in {"done", "raised"}
    /\ resp' =
         IF pc = "raised"
         THEN APIResponse(TRUE, Py([response |-> StrV(text), type |-> S("raw")]), NoneV,
                          Py([timestamp |-> S(IsoNow), parsing_error |-> S(Message)]))
         ELSE IF IsDict(result) /\ Has(result, "content")
         THEN APIResponse(TRUE,
                  Py([response |-> Get(result, "content"), type |-> S("explanation")]),
                  NoneV, Stamp)
         ELSE IF IsStr(result)
         THEN APIResponse(TRUE, Py([response |-> result, type |-> S("explanation")]), NoneV, Stamp)
         ELSE APIResponse(TRUE, result, NoneV, Stamp)
    /\ hpc' = "returned"
    /\ UNCHANGED <<xvars, handler, data, out, calls>>

\* collaborative_task (lines 859-902) from the return of
\* clean_json_response on the text of execute_group_task
CollaborativeTask ==
    /\ handler = "collaborative_task"
    /\ hpc = "call"
    /\ pc \in {"done", "raised"}
    /\ resp' = IF pc = "raised"
               THEN APIResponse(TRUE,
                        Py([content |-> StrV(text), format |-> S("text"),
                            warning |-> S("Failed to parse as JSON")]),
                        NoneV, Stamp)
               ELSE APIResponse(TRUE, result, NoneV, Stamp)
    /\ hpc' = "returned"
    /\ UNCHANGED <<xvars, handler, data, out, calls>>

\* lines 1401-1450: the six modules of the fallback course; the course lasts
\* 4 weeks, so each module gets 28 // 6 days
FallbackModules ==
    LET names == <<<<"Introduction to ">> \o Topic, <<"Core ">> \o Topic \o <<" Concepts">>,
                   <<"Practical ">> \o Topic \o <<" Applications">>,
                   <<"Advanced ">> \o Topic \o <<" Techniques">>,
                   Topic \o <<" Best Practices">>, <<"Mastering ">> \o Topic>>
        descriptions ==
            <<<<"Get started with the fundamentals of ">> \o Topic
                  \o <<" and establish a solid foundation for the rest of the course.">>,
              <<"Explore the essential concepts and principles of ">> \o Topic
                  \o <<" through structured learning and examples.">>,
              <<"Apply your knowledge of ">> \o Topic
                  \o <<" to solve real-world problems and build practical skills.">>,
              <<"Deepen your understanding of ">> \o Topic
                  \o <<" with more advanced concepts and specialized techniques.">>,
              <<"Learn industry best practices and optimization strategies for working with ">>
                  \o Topic \o <<".">>,
              <<"Put everything together to master ">> \o Topic
                  \o <<" through comprehensive projects and case studies.">>>>
    IN [i \in 1..6 |->
           Py([id |-> StrV(<<"module_">> \o Dec(i)),
               name |-> StrV(names[i]),
               description |-> StrV(descriptions[i]),
               order |-> IntV(Dec(i)),
               duration |-> IntV(Dec((4 * 7) \div 6)),
               lessons |-> EmptyList])]

\* greatest learning style score of a request explored
MaxScore == 1

Scores == -1..MaxScore

\* the number an int value stands for
IntOf(x) == CHOOSE n \in Scores : Dec(n) = x.v

\* learning_styles.get(style, 0)
Score(learning_styles, style) ==
    IF Has(learning_styles, style) THEN IntOf(Get(learning_styles, style)) ELSE 0

\* the chain as it would be if each style were compared with the next one
\* only
PreferredStyleNextOnly(learning_styles) ==
    IF Score(learning_styles, "visual") > Score(learning_styles, "auditory")
    THEN "visual"
    ELSE IF Score(learning_styles, "auditory") > Score(learning_styles, "reading")
    THEN "auditory"
    ELSE IF Score(learning_styles, "reading") > Score(learning_styles, "kinesthetic")
    THEN "reading"
    ELSE "kinesthetic"

\* lines 1373-1382: preferred_style
PreferredStyle(learning_styles) ==
    IF /\ Score(learning_styles, "visual") > Score(learning_styles, "auditory")
       /\ Score(learning_styles, "visual") > Score(learning_styles, "reading")
       /\ Score(learning_styles, "visual") > Score(learning_styles, "kinesthetic")
    THEN "visual"
    ELSE IF /\ Score(learning_styles, "auditory") > Score(learning_styles, "reading")
            /\ Score(learning_styles, "auditory") > Score(learning_styles, "kinesthetic")
    THEN "auditory"
    ELSE IF Score(learning_styles, "reading") > Score(learning_styles, "kinesthetic")
    THEN "reading"
    ELSE "kinesthetic"

\* the request of /course/generate-from-assessment: its assessment holds the
\* learning style scores and no level of prior knowledge (so the difficulty
\* is beginner)
AssessmentRequest(learning_styles) ==
    Py([topic |-> StrV(Topic), duration |-> StrV(Duration),
        assessment |-> Py([learningStyle |-> learning_styles])])

\* line 1393: the description of the fallback course
FallbackDescription(preferred_style) ==
    StrV(<<"A ">> \o Duration \o <<" course on ">> \o Topic
         \o <<" for ", "beginner", " level students, optimized for ",
              preferred_style, " learners.">>)

\* lines 1368-1453: the fallback course for the request in data
AssessmentFallbackCourse ==
    Py([id |-> S(Uuid),
        title |-> StrV(Topic \o <<" - ", "Beginner", " Level Course">>),
        description |->
            FallbackDescription(PreferredStyle(Get(Get(data, "assessment"), "learningStyle"))),
        prerequisites |-> ListV(<<StrV(<<"Basic understanding of ">> \o Topic \o <<" concepts">>),
                                  S("Willingness to learn and practice regularly")>>),
        learningGoals |-> ListV(<<StrV(<<"Understand core ">> \o Topic
                                         \o <<" concepts and principles">>),
                                  S("Apply theoretical knowledge to practical problems"),
                                  StrV(<<"Develop confidence in working with ">> \o Topic),
                                  S("Build a foundation for more advanced learning")>>),
        modules |-> ListV(FallbackModules),
        difficulty |-> S("beginner"),
        duration |-> StrV(Duration)])

\* extract_valid_json (lines 1289-1322) before it falls back on
\* clean_json_response: the fenced block, then the span of braces; json.loads
\* is guarded against JSONDecodeError alone
LoadsFound(m) == IF m.found THEN JsonLoads(m.span) ELSE Fail

OrElse(first, second) == IF first.st # "fail" THEN first ELSE second

ExtractValidJson(s) == OrElse(LoadsFound(CodeBlock(s)), LoadsFound(ObjectSpan(s)))

\* generate_course_from_assessment, lines 1348-1360: the agent has returned
\* its text and no reply was captured on the way; extract_valid_json reads
\* the text and hands it to clean_json_response if it finds nothing
CourseFromAssessmentRead ==
    /\ handler = "generate_course_from_assessment"
    /\ hpc = "call"
    /\ pc = "idle"
    /\ CASE ExtractValidJson(text).st = "ok" ->
              /\ result' = ExtractValidJson(text).val
              /\ pc' = "done"
              /\ hpc' = "extracted"
              /\ UNCHANGED resp
         [] ExtractValidJson(text).st = "rec" ->
              /\ resp' = APIResponse(FALSE, NoneV,
                             StrV(<<"Failed to generate course from assessment: ", Message>>), Stamp)
              /\ hpc' = "returned"
              /\ UNCHANGED <<result, pc>>
         [] OTHER ->
              /\ pc' = "direct"
              /\ hpc' = "extracted"
              /\ UNCHANGED <<result, resp>>
    /\ UNCHANGED <<text, tried, handler, data, out, calls>>

\* lines 1365-1510: the response for the value extracted
CourseFromAssessmentResponse(parsed) ==
    IF ~Truthy(parsed) \/ ~IsDict(parsed) \/ ~Truthy(Get(parsed, "modules"))
    THEN APIResponse(TRUE,
             Set(CourseStamped(AssessmentFallbackCourse), "modules",
                 ListV([i \in 1..6 |-> CourseModule(FallbackModules[i], i)])),
             NoneV,
             Py([timestamp |-> S(IsoNow), note |-> S("Using fallback course structure")]))
    ELSE IF ~CourseModulesWalk(parsed)
    THEN APIResponse(FALSE, NoneV,
             StrV(<<"Failed to generate course from assessment: ", Message>>), Stamp)
    ELSE APIResponse(TRUE,
             Set(CourseStamped(parsed), "modules",
                 ListV([i \in 1..Len(Get(parsed, "modules").v) |->
                           CourseModule(Get(parsed, "modules").v[i], i)])),
             NoneV, Stamp)

\* generate_course_from_assessment, lines 1361-1510: a clean_json_response
\* that raised counts as None (lines 1320-1322)
GenerateCourseFromAssessment ==
    /\ handler = "generate_course_from_assessment"
    /\ hpc = "extracted"
    /\ pc \in {"done", "raised"}
    /\ resp' = CourseFromAssessmentResponse(IF pc = "raised" THEN NoneV ELSE result)
    /\ hpc' = "returned"
    /\ UNCHANGED <<xvars, handler, data, out, calls>>

\* lines 1816-1856: the templated daily session; the request asks for 30
\* minutes
DefaultSession ==
    Py([id |-> S(Uuid),
        title |-> StrV(<<"Daily Session on ">> \o Topic),
        duration |-> IntV(<<"30">>),
        learningObjective |-> StrV(<<"Learn key concepts about ">> \o Topic
                                    \o <<" and practice applying them.">>),
        sections |-> ListV(<<
            Py([type |-> S("introduction"), title |-> S("Introduction"),
                content |-> StrV(<<"Welcome to today's session on ">> \o Topic
                    \o <<". We'll explore key concepts and practice applying them.">>)]),
            Py([type |-> S("content"), title |-> StrV(<<"Understanding ">> \o Topic),
                content |-> StrV(<<"This section covers fundamental principles of ">> \o Topic
                    \o <<", providing you with essential knowledge and context.">>)]),
            Py([type |-> S("activity"), title |-> S("Practice Activity"),
                instructions |-> StrV(<<"Apply what you've learned about ">> \o Topic
                    \o <<" in this simple exercise.">>),
                expectedOutcome |->
                    S("Gain practical experience with the concepts covered in this session.")]),
            Py([type |-> S("assessment"), title |-> S("Knowledge Check"),
                questions |-> ListV(<<
                    Py([question |-> StrV(<<"What is one key benefit of understanding ">>
                                           \o Topic \o <<"?">>),
                        options |-> FourOptions,
                        correctAnswer |-> S("Option A"),
                        explanation |-> S("This is the correct answer because...")])>>)]),
            Py([type |-> S("next"), title |-> S("Coming Up Next"),
                content |-> StrV(<<"In our next session, we'll explore more advanced concepts in ">>
                                  \o Topic \o <<".">>)])>>)])

\* lines 1812, 1974: a parse that is falsy, not a mapping or without a truthy
\* list under key gives way to the template
OrTemplate(parsed, key, template) ==
    IF ~Truthy(parsed) \/ ~IsDict(parsed) \/ ~Truthy(Get(parsed, key)) THEN template ELSE parsed

\* generate_daily_session (lines 1697-1895) from the return of
\* clean_json_response on, for the request of user u1 in course c1 and
\* module m1, with no lesson
GenerateDailySession ==
    /\ handler = "generate_daily_session"
    /\ hpc = "call"
    /\ pc \in {"done", "raised"}
    /\ resp' =
         IF pc = "raised"
         THEN APIResponse(FALSE, NoneV, StrV(<<"Failed to parse daily session: ", Message>>), Stamp)
         ELSE APIResponse(TRUE,
                  Set(Set(Set(WithDefault(OrTemplate(result, "sections", DefaultSession),
                                          "id", S(Uuid)),
                              "createdAt", S(IsoNow)), "courseId", S("c1")), "moduleId", S("m1")),
                  NoneV,
                  Py([timestamp |-> S(IsoNow), userId |-> S("u1"), courseId |-> S("c1")]))
    /\ hpc' = "returned"
    /\ UNCHANGED <<xvars, handler, data, out, calls>>

\* lines 1978-2000: the templated practice session
DefaultPractice ==
    Py([id |-> S(Uuid),
        title |-> StrV(<<"Practice Session on ">> \o Topic),
        description |-> StrV(<<"Practice and apply key concepts related to ">> \o Topic \o <<".">>),
        exercises |-> ListV(<<
            Py([id |-> S("exercise_1"), type |-> S("interactive"),
                question |-> StrV(<<"What is one key aspect of ">> \o Topic
                                   \o <<" that you find most interesting?">>),
                steps |-> ListV(<<S("Reflect on the key concepts you've learned"),
                    S("Consider which aspects are most applicable to real-world situations")>>),
                solution |-> S("This is an open-ended question. Your response should demonstrate understanding of core concepts.")]),
            Py([id |-> S("exercise_2"), type |-> S("problem"),
                question |-> StrV(<<"Describe a specific scenario where knowledge of ">> \o Topic
                                   \o <<" would be valuable.">>),
                steps |-> ListV(<<S("Identify a relevant real-world situation"),
                                  S("Explain how specific concepts apply to this scenario")>>),
                solution |-> S("Your answer should connect theoretical concepts to practical applications.")])>>),
        difficulty |-> StrV(Difficulty),
        estimatedTime |-> S("15 minutes")])

\* generate_practice_session (lines 1905-2034) from the return of
\* clean_json_response on
GeneratePracticeSession ==
    /\ handler = "generate_practice_session"
    /\ hpc = "call"
    /\ pc \in {"done", "raised"}
    /\ resp' =
         IF pc = "raised"
         THEN APIResponse(FALSE, NoneV, StrV(<<"Failed to parse practice session: ", Message>>),
                          Stamp)
         ELSE APIResponse(TRUE,
                  Set(WithDefault(OrTemplate(result, "exercises", DefaultPractice), "id", S(Uuid)),
                      "createdAt", S(IsoNow)),
                  NoneV,
                  Py([timestamp |-> S(IsoNow), topic |-> StrV(Topic),
                      difficulty |-> StrV(Difficulty)]))
    /\ hpc' = "returned"
    /\ UNCHANGED <<xvars, handler, data, out, calls>>

\* generate_practice_problems (lines 2045-2165): the replacement field at
\* line 2074 of the prompt, {"solution": ...}, formats the string "solution"
\* with what follows the colon as its format specifier, which raises
\* ValueError whatever the request; the outer except answers (lines
\* 2159-2165) and the agent is never called
GeneratePracticeProblems ==
    /\ handler = "generate_practice_problems"
    /\ hpc = "call"
    /\ pc = "idle"
    /\ resp' = APIResponse(FALSE, NoneV,
                   StrV(<<"Failed to generate practice problems: ", Message>>), Stamp)
    /\ hpc' = "returned"
    /\ UNCHANGED <<xvars, handler, data, out, calls>>

\* generate_persona_content, lines 2520-2541: the extracted value is the data
GeneratePersonaContent ==
    /\ handler = "generate_persona_content"
    /\ hpc = "call"
    /\ pc \in {"done", "raised"}
    /\ resp' = IF pc = "raised" THEN PersonaFailure ELSE APIResponse(TRUE, result, NoneV, StatusOk)
    /\ hpc' = "returned"
    /\ UNCHANGED <<xvars, handler, data, out, calls>>

\* chat_with_persona, lines 2778-2788: the text of the agent is the answer,
\* stripped; nothing is extracted from it
ChatWithPersona ==
    /\ handler = "chat_with_persona"
    /\ hpc = "call"
    /\ pc = "idle"
    /\ resp' = APIResponse(TRUE, Py([response |-> StrV(Strip(text, Whitespace))]), NoneV, StatusOk)
    /\ hpc' = "returned"
    /\ UNCHANGED <<xvars, handler, data, out, calls>>

\* validation_exception_handler, lines 53-65: the request of any endpoint
\* does not pass its pydantic model and the handler is never entered
ValidationExceptionHandler ==
    /\ hpc = "call"
    /\ pc \in {"direct", "idle"}
    /\ tried = <<>>
    /\ resp' = Py([success |-> BoolV(FALSE), error |-> S("Invalid request parameters"),
                   detail |-> S("exc.errors()"), metadata |-> Stamp])
    /\ pc' = "invalid"
    /\ hpc' = "returned"
    /\ UNCHANGED <<text, result, tried, handler, data, out, calls>>

\* the endpoint handlers
Handlers ==
    {"generate_course", "generate_content", "chat", "collaborative_task", "generate_assessment",
     "generate_course_from_assessment", "generate_module_lessons", "generate_daily_session",
     "generate_practice_session", "generate_practice_problems", "generate_persona",
     "update_persona", "generate_persona_content", "generate_course_with_persona",
     "chat_with_persona"}

\* execute_agent_task_with_retry (execute_group_task in collaborative_task)
\* raises instead of returning the text, and the outer except of the handler
\* answers: without metadata at lines 671-673, 775-777, 854-856, 900-902 and
\* 1122-1124, with a status at lines 2403-2413, 2464-2474, 2531-2541,
\* 2714-2724 and 2789-2799, with a timestamp alone at lines 1504-1510,
\* 1676-1682, 1889-1895 and 2028-2034
UpstreamFails ==
    /\ handler \in Handlers \ {"generate_practice_problems"}
    /\ IF handler \in {"generate_course_from_assessment", "chat_with_persona"}
       THEN hpc = "call" /\ pc = "idle"
       ELSE hpc # "returned" /\ pc = "direct"
    /\ resp' = CASE handler \in {"generate_course", "generate_content", "chat",
                                 "collaborative_task", "generate_assessment"} ->
                      APIResponse(FALSE, NoneV, S(Message), NoneV)
                 [] handler \in {"generate_persona", "update_persona", "generate_persona_content",
                                 "generate_course_with_persona", "chat_with_persona"} ->
                      PersonaFailure
                 [] handler = "generate_course_from_assessment" ->
                      APIResponse(FALSE, NoneV,
                          StrV(<<"Failed to generate course from assessment: ", Message>>), Stamp)
                 [] handler = "generate_module_lessons" ->
                      APIResponse(FALSE, NoneV, StrV(<<"Failed to generate lessons: ", Message>>),
                                  Stamp)
                 [] handler = "generate_daily_session" ->
                      APIResponse(FALSE, NoneV,
                          StrV(<<"Failed to generate daily session: ", Message>>), Stamp)
                 [] handler = "generate_practice_session" ->
                      APIResponse(FALSE, NoneV,
                          StrV(<<"Failed to generate practice session: ", Message>>), Stamp)
    /\ pc' = "failed"
    /\ hpc' = "returned"
    /\ UNCHANGED <<text, result, tried, handler, data, out, calls>>

\* --------------------------------------- execute_agent_task_with_retry

\* RETRY_CONFIG (config.py, lines 59-63)
MaxRetries == 3
RetryDelay == 5
RequestTimeout == 300

\* the patterns of an unhelpful response (line 482), each one symbol
UnhelpfulPatterns == {"I'm sorry, I can't assist", "I'll need more information"}

\* line 482: one of the patterns occurs in the response
Unhelpful(response) == \E i \in 1..Len(response) : response[i] \in UnhelpfulPatterns

\* the content of the last message of a chat history
Responses ==
    {<<>>, <<"x">>, <<"{", "}">>, <<"I'm sorry, I can't assist">>,
     <<"x", "I'll need more information", "x">>}

\* attempt < max_retries - 1, for the attempt in progress (lines 483, 494, 503)
NotLastAttempt == Len(tried) < MaxRetries - 1

\* Here data is the set of the attempts whose initiate_chat is running in a
\* worker thread, tried the outcomes of the attempts whose wait_for has
\* ended, and calls the invocations and sleeps awaited so far: an invocation
\* is entered in calls when its wait_for ends.

\* the attempt of this turn of the loop, counted from 1
Attempt == Len(tried) + 1

\* lines 467-471: asyncio.to_thread starts initiate_chat in a worker thread
InitiateChatStarts ==
    /\ handler = "execute_agent_task_with_retry"
    /\ hpc = "attempt"
    /\ Attempt \notin data
    /\ data' = data \cup {Attempt}
    /\ UNCHANGED <<xvars, handler, hpc, out, resp, calls>>

\* lines 466-488: initiate_chat returns a chat history whose last message
\* holds the response; an unhelpful one is retried unless the attempt is the
\* last, and any other is returned
InitiateChatAnswers ==
    /\ handler = "execute_agent_task_with_retry"
    /\ hpc = "attempt"
    /\ Attempt \in data
    /\ data' = data \ {Attempt}
    /\ \E response \in Responses :
          /\ text' = response
          /\ calls' = Append(calls, Call("initiate_chat", IntV(Dec(RequestTimeout))))
          /\ IF Unhelpful(response) /\ NotLastAttempt
             THEN /\ tried' = Append(tried, "unhelpful")
                  /\ hpc' = "sleep"
                  /\ UNCHANGED result
             ELSE /\ tried' = Append(tried, IF Unhelpful(response) THEN "unhelpful" ELSE "answered")
                  /\ hpc' = "returned"
                  /\ result' = StrV(response)
    /\ UNCHANGED <<pc, out, resp, handler>>

\* HTTPException(status_code=500, detail=...)
HTTPException(detail) == Py([status_code |-> IntV(<<"500">>), detail |-> StrV(detail)])

\* the time-out as it would be if the sleep did not depend on the attempt
InitiateChatTimesOutSleepsAlways ==
    /\ handler = "execute_agent_task_with_retry"
    /\ hpc = "attempt"
    /\ Attempt \in data
    /\ tried' = Append(tried, "timeout")
    /\ IF NotLastAttempt
       THEN /\ calls' = Append(calls, Call("initiate_chat", IntV(Dec(RequestTimeout))))
            /\ hpc' = "sleep"
            /\ UNCHANGED out
       ELSE /\ calls' = calls \o <<Call("initiate_chat", IntV(Dec(RequestTimeout))),
                                  Call("sleep", IntV(Dec(RetryDelay)))>>
            /\ hpc' = "raised"
            /\ out' = HTTPException(<<"Failed after ">> \o Dec(MaxRetries)
                                      \o <<" attempts: ", Message>>)
    /\ UNCHANGED <<text, pc, result, data, resp, handler>>

\* lines 492-498 and 500-508: wait_for times out and cancels the future of
\* asyncio.to_thread, which leaves the worker thread running; the
\* HTTPException raised on the last attempt (line 498) is caught at line 500
\* and raised anew at line 508
InitiateChatTimesOut ==
    /\ handler = "execute_agent_task_with_retry"
    /\ hpc = "attempt"
    /\ Attempt \in data
    /\ calls' = Append(calls, Call("initiate_chat", IntV(Dec(RequestTimeout))))
    /\ tried' = Append(tried, "timeout")
    /\ IF NotLastAttempt
       THEN hpc' = "sleep" /\ UNCHANGED out
       ELSE /\ hpc' = "raised"
            /\ out' = HTTPException(<<"Failed after ">> \o Dec(MaxRetries)
                                      \o <<" attempts: ", Message>>)
    /\ UNCHANGED <<text, pc, result, data, resp, handler>>

\* lines 489-490 and 500-508: initiate_chat raises, or returns no chat
\* history (ValueError, line 490), or a last message whose content is no
\* string (TypeError, line 482)
InitiateChatRaises ==
    /\ handler = "execute_agent_task_with_retry"
    /\ hpc = "attempt"
    /\ Attempt \in data
    /\ data' = data \ {Attempt}
    /\ calls' = Append(calls, Call("initiate_chat", IntV(Dec(RequestTimeout))))
    /\ \E outcome \in {"error", "empty"} : tried' = Append(tried, outcome)
    /\ IF NotLastAttempt
       THEN hpc' = "sleep" /\ UNCHANGED out
       ELSE /\ hpc' = "raised"
            /\ out' = HTTPException(<<"Failed after ">> \o Dec(MaxRetries)
                                      \o <<" attempts: ", Message>>)
    /\ UNCHANGED <<text, pc, result, resp, handler>>

\* asyncio.sleep(RETRY_CONFIG["retry_delay"]) at lines 485, 495 and 505,
\* then the next turn of the loop
Sleep ==
    /\ handler = "execute_agent_task_with_retry"
    /\ hpc = "sleep"
    /\ calls' = Append(calls, Call("sleep", IntV(Dec(RetryDelay))))
    /\ hpc' = "attempt"
    /\ UNCHANGED <<text, pc, result, tried, data, out, resp, handler>>

\* the initiate_chat of an attempt that timed out returns in its worker
\* thread while the call is still in its loop; its result is dropped
AbandonedChatEnds ==
    /\ handler = "execute_agent_task_with_retry"
    /\ hpc \in {"attempt", "sleep"}
    /\ \E k \in data :
          /\ k <= Len(tried)
          /\ data' = data \ {k}
    /\ UNCHANGED <<xvars, handler, hpc, out, resp, calls>>

InitRetry ==
    /\ handler = "execute_agent_task_with_retry"
    /\ hpc = "attempt"
    /\ text = <<>>
    /\ pc = "idle"
    /\ result = NoneV
    /\ tried = <<>>
    /\ data = {}
    /\ out = Unset
    /\ resp = Unset
    /\ calls = <<>>

NextRetry ==
    \/ InitiateChatStarts
    \/ InitiateChatAnswers
    \/ InitiateChatTimesOut
    \/ InitiateChatRaises
    \/ Sleep
    \/ AbandonedChatEnds

SpecRetry == InitRetry /\ [][NextRetry]_vars

\* ------------------------------ specification: the process across requests

\* most requests the process is followed through
MaxRequests == 3

\* Here data is the list of reply handlers registered on
\* agents[AgentRole.COURSE_DESIGNER], the newest first, and calls the
\* handlers that have served a request so far, in order.

\* the closure capture_valid_response (lines 1324-1339) of the n-th request
CaptureValidResponse(n) == Py([fn |-> S("capture_valid_response"), request |-> IntV(Dec(n))])

\* generate_course_from_assessment, lines 1341-1345: each request registers
\* its own closure on the long-lived agent, and nothing removes it
CourseFromAssessmentRegisters ==
    /\ handler = "process"
    /\ Len(calls) < MaxRequests
    /\ data' = ListV(<<CaptureValidResponse(Len(calls) + 1)>> \o data.v)
    /\ calls' = Append(calls, "generate_course_from_assessment")
    /\ UNCHANGED <<xvars, handler, hpc, out, resp>>

\* a request to any other endpoint: none of them registers or removes a
\* reply handler
OtherRequestServed ==
    /\ handler = "process"
    /\ Len(calls) < MaxRequests
    /\ \E h \in Handlers \ {"generate_course_from_assessment"} : calls' = Append(calls, h)
    /\ UNCHANGED <<xvars, handler, hpc, data, out, resp>>

\* lines 82-95: the agents as the process creates them
InitProcess ==
    /\ NoText
    /\ handler = "process"
    /\ hpc = "call"
    /\ data = EmptyList
    /\ out = Unset
    /\ resp = Unset
    /\ calls = <<>>

NextProcess == CourseFromAssessmentRegisters \/ OtherRequestServed

SpecProcess == InitProcess /\ [][NextProcess]_vars

\* ------------------------------------------ specification: the handlers

\* the values an upstream model may answer with
Answers ==
    {NoneV, IntV(<<"1">>), EmptyList, EmptyDict,
     Py([questions |-> EmptyList]),
     Py([questions |-> IntV(<<"1">>)]),
     Py([questions |-> ListV(<<EmptyDict>>)]),
     Py([questions |-> ListV(<<Py([question |-> S("x"),
                                   options |-> ListV(<<S("a"), S("b")>>)]),
                               IntV(<<"1">>)>>)]),
     Py([modules |-> EmptyList]),
     Py([modules |-> ListV(<<EmptyDict>>)]),
     Py([modules |-> ListV(<<IntV(<<"1">>)>>)]),
     Py([modules |-> IntV(<<"1">>)]),
     Py([modules |-> ListV(<<Py([lessons |-> NoneV])>>)]),
     Py([modules |-> ListV(<<Py([id |-> S("a"), lessons |-> ListV(<<IntV(<<"1">>)>>)])>>)]),
     Py([title |-> S("x"),
         modules |-> ListV(<<Py([title |-> S("a"),
                                 lessons |-> ListV(<<Py([title |-> S("b")])>>)])>>)]),
     Py([lessons |-> EmptyList]),
     Py([lessons |-> S("x")]),
     Py([lessons |-> ListV(<<EmptyDict>>)]),
     Py([lessons |-> ListV(<<Py([title |-> S("x")]), IntV(<<"1">>)>>)]),
     Py([lessons |-> ListV(<<Py([id |-> S("a"), title |-> S("x")])>>)])}

\* what an answer comes wrapped in
Wrappings ==
    {[pre |-> <<>>, post |-> <<>>],
     [pre |-> <<"x", " ">>, post |-> <<" ", "x">>],
     [pre |-> <<Fence, "json", Newline>>, post |-> <<Newline, Fence>>]}

\* answers in plain text, with and without a run of brackets before them
\* that nests deeper than the recursion limit
PlainAnswers ==
    LET plain == {JoinLines(ls) : ls \in
                     {<<>>,
                      <<<<"x">>>>,
                      <<<<"1", ".", " ", "how", " ", "much", " ", "time">>,
                        <<"A", ")", " ", "a">>, <<"B", ")", " ", "b">>,
                        <<"Answer", ":", " ", "B">>>>,
                      <<<<"Question", " ", "1", ":", " ", "x">>, <<"True">>>>}}
    IN plain \cup {Nest(RecursionLimit + 1) \o <<Newline>> \o s : s \in plain}

HandlerTexts ==
    {w.pre \o Dumps(a) \o w.post : w \in Wrappings, a \in Answers}
    \cup PlainAnswers \cup DeepTexts \cup {SentinelText}

InitHandlers ==
    /\ handler \in Handlers
    /\ text \in CASE handler = "generate_persona" -> ContentTexts
                 [] handler = "generate_practice_problems" -> {<<>>}
                 [] OTHER -> HandlerTexts
    /\ data \in CASE handler = "generate_module_lessons" ->
                      {LessonsRequest(S("M")), LessonsRequest(StrV(<<>>))}
                 [] handler = "generate_content" -> {ContentRequest("text"), ContentRequest("visual")}
                 [] handler = "generate_course_from_assessment" ->
                      {AssessmentRequest(EmptyDict),
                       AssessmentRequest(Py([visual |-> IntV(Dec(1)), reading |-> IntV(Dec(1))]))}
                 [] OTHER -> {Unset}
    /\ pc = IF \/ handler = "generate_module_lessons" /\ ~ValidRequest(data)
               \/ handler \in {"generate_course_from_assessment", "generate_practice_problems",
                               "chat_with_persona"}
            THEN "idle" ELSE "direct"
    /\ result = NoneV
    /\ tried = <<>>
    /\ hpc = "call"
    /\ out = Unset
    /\ resp = Unset
    /\ calls = <<>>

NextHandlers ==
    \/ Extract
    \/ ValidationExceptionHandler
    \/ UpstreamFails
    \/ GenerateCourse
    \/ GenerateContent
    \/ Chat
    \/ CollaborativeTask
    \/ GenerateAssessment
    \/ CourseFromAssessmentRead
    \/ GenerateCourseFromAssessment
    \/ GenerateDailySession
    \/ GeneratePracticeSession
    \/ GeneratePracticeProblems
    \/ GeneratePersonaContent
    \/ ChatWithPersona
    \/ PersonaProfiled
    \/ PersonaShaped
    \/ PersonaContented
    \/ UpdatePersona
    \/ GenerateModuleLessons
    \/ GenerateCourseWithPersona

SpecHandlers == InitHandlers /\ [][NextHandlers]_vars

\* ------------------- specification: the fallback course of an assessment

\* the learning style scores of a request: each style absent or scored
LearningStyles ==
    Mappings([visual |-> {Absent} \cup {IntV(Dec(n)) : n \in Scores},
              auditory |-> {Absent} \cup {IntV(Dec(n)) : n \in Scores},
              reading |-> {Absent} \cup {IntV(Dec(n)) : n \in Scores},
              kinesthetic |-> {Absent} \cup {IntV(Dec(n)) : n \in Scores}])

\* texts from which no course is extracted, and one that holds a course
InitFallback ==
    /\ handler = "generate_course_from_assessment"
    /\ text \in {<<"x">>, <<"null">>, Dumps(Py([modules |-> EmptyList])),
                 Dumps(Py([modules |-> ListV(<<EmptyDict>>)]))}
    /\ data \in {AssessmentRequest(ls) : ls \in LearningStyles}
    /\ pc = "idle"
    /\ result = NoneV
    /\ tried = <<>>
    /\ hpc = "call"
    /\ out = Unset
    /\ resp = Unset
    /\ calls = <<>>

NextFallback == CourseFromAssessmentRead \/ Extract \/ GenerateCourseFromAssessment

SpecFallback == InitFallback /\ [][NextFallback]_vars

\* ------------------------------------------------------------------ claims

\* C1: for every text clean_json_response returns (None, a parsed value or
\* the error sentinel) and never lets an exception reach its caller.
C1_NeverRaises == pc # "raised"

ValidWhole == JsonLoads(text).st = "ok"

\* C2: a text that is valid JSON as a whole is returned as the standard
\* library parses it, by the direct parse alone, whatever brackets or fences
\* its string values hold.
C2_DirectParseOfValidJson ==
    (ValidWhole /\ pc # "direct") =>
        /\ pc = "done"
        /\ result = JsonLoads(text).val
        /\ tried = <<"direct">>

\* a valid JSON string literal whose content is itself a parsing object span
C2_Witness ==
    /\ pc = "done"
    /\ ValidWhole
    /\ IsStr(result)
    /\ ObjectSpan(text).found
    /\ JsonLoads(ObjectSpan(text).span).st = "ok"

Order == <<"direct", "object", "array", "fence", "build">>

SpanOutcome(m) == IF m.found THEN JsonLoads(m.span) ELSE Fail

\* what each strategy makes of the text, taken alone
Outcome(name, s) ==
    CASE name = "direct" -> JsonLoads(s)
      [] name = "object" -> SpanOutcome(ObjectSpan(s))
      [] name = "array" -> SpanOutcome(ArraySpan(s))
      [] name = "fence" -> SpanOutcome(CodeBlock(s))
      [] name = "build" -> BuildOutcome(s)

\* the first strategy, in the fixed order, whose candidate parses; 0 if none
FirstParsing(s) ==
    IF \E i \in 1..Len(Order) : Outcome(Order[i], s).st = "ok"
    THEN CHOOSE i \in 1..Len(Order) :
            /\ Outcome(Order[i], s).st = "ok"
            /\ \A j \in 1..(i - 1) : Outcome(Order[j], s).st # "ok"
    ELSE 0

\* C3: the strategies are consulted in the fixed order and the value
\* returned is that of the first strategy whose candidate parses.
C3_FirstSuccessWins ==
    (pc = "done" /\ FirstParsing(text) # 0) =>
        /\ tried = SubSeq(Order, 1, FirstParsing(text))
        /\ result = Outcome(Order[FirstParsing(text)], text).val

\* the part of the text before the fenced block, and the part after it
BeforeFence(s) == Slice(s, 1, FindFrom(s, {Fence}, 1) - 1)
AfterFence(s) ==
    LET f == FindFrom(s, {Fence}, 1)
        g == FindFrom(s, {Fence}, f + 1)
    IN Slice(s, g + 1, Len(s))

\* brace noise outside the fence that is not JSON and holds none
BraceNoise(s) ==
    LET outside == BeforeFence(s) \o AfterFence(s) IN
    /\ \E i \in 1..Len(outside) : outside[i] \in {"{", "}"}
    /\ \A n \in {"direct", "object", "array", "build"} : Outcome(n, outside).st = "fail"

\* C4: a fenced block with valid JSON inside, amid brace noise that is not
\* valid JSON, is returned as the parse of the block's interior.
C4_FencedBlockWins ==
    (/\ pc = "done"
     /\ CodeBlock(text).found
     /\ JsonLoads(CodeBlock(text).span).st = "ok"
     /\ BraceNoise(text)) =>
        result = JsonLoads(CodeBlock(text).span).val

\* C5: an object literal that is JSON but for its unquoted keys is returned
\* as the object with those keys and values.
C5_BareKeysRepaired ==
    (pc = "done" /\ IsBareKeyObject(text)) => result = BareKeyLoads(text).val

\* a string with at least one character
NonEmptyStr(x) == IsStr(x) /\ \E i \in 1..Len(x.v) : x.v[i] # ""

\* the argument of the normalizer call that has returned
Given == calls[1].arg

\* C6: whatever it is given, ensure_course_json_format returns a record whose
\* title and description are non-empty strings and whose modules is a list
\* of at least one module.
C6_CourseSkeleton ==
    (handler = "ensure_course_json_format" /\ hpc = "returned") =>
        /\ IsDict(out)
        /\ NonEmptyStr(Get(out, "title"))
        /\ NonEmptyStr(Get(out, "description"))
        /\ IsList(Get(out, "modules"))
        /\ Len(Get(out, "modules").v) >= 1

\* a course whose modules are all non-mappings gets the templated module
C6_Witness ==
    /\ handler = "ensure_course_json_format"
    /\ hpc = "returned"
    /\ Given = Py([title |-> IntV(<<"1">>), modules |-> ListV(<<IntV(<<"1">>), IntV(<<"1">>)>>)])
    /\ Get(out, "modules") = ListV(<<DefaultModule(Topic)>>)

\* the course {"modules": [{}]}
EmptyModuleCourse == Py([modules |-> ListV(<<EmptyDict>>)])

TemplatedLesson(i) ==
    Py([id |-> StrV(<<"lesson_", Now, "_">> \o Dec(i) \o <<"_1">>),
        title |-> StrV(<<"Lesson 1 in ", "Module ">> \o Dec(i)),
        description |-> S("Introduction to key concepts"),
        contentSummary |-> StrV(<<"This lesson covers important ">> \o Topic \o <<" concepts.">>),
        estimatedDuration |-> Sixty,
        resources |-> EmptyList])

C8_QuestionsWellFormed ==
    (handler = "validate_assessment_questions" /\ hpc = "returned") =>
        /\ IsDict(out)
        /\ IsList(Get(out, "questions"))
        /\ Len(Get(out, "questions").v) >= 1
        /\ \A i \in 1..Len(Get(out, "questions").v) :
              LET q == Get(out, "questions").v[i] IN
              /\ IsDict(q)
              /\ \A f \in {"id", "question", "options", "type", "category"} : Has(q, f)
              /\ IsList(Get(q, "options"))
              /\ Len(Get(q, "options").v) >= 2

\* a question that came with a single option leaves with the four stock ones
C8_Witness ==
    /\ handler = "validate_assessment_questions"
    /\ hpc = "returned"
    /\ IsDict(Given)
    /\ IsList(Get(Given, "questions"))
    /\ \E i \in 1..Len(Get(Given, "questions").v) :
          LET q == Get(Given, "questions").v[i] IN
          /\ IsDict(q)
          /\ Get(q, "options") = ListV(<<S("a")>>)
          /\ Get(Get(out, "questions").v[i], "options") = FourOptions

\* the questions, the lessons and the modules of the response
RespData(name) == Get(Get(resp, "data"), name)

Succeeded == hpc = "returned" /\ Get(resp, "success") = BoolV(TRUE)

\* the canned questions of the validator as the handler finishes them
ValidatorCanned ==
    [i \in 1..Len(ValidatorDefaultQuestions) |-> FinishedQuestion(ValidatorDefaultQuestions[i], i)]

\* the response carries one of the two canned sets of questions
Canned == RespData("questions") \in {ListV(ValidatorCanned), ListV(HandlerDefaultQuestions)}

Called(fn) == \E i \in 1..Len(calls) : calls[i].fn = fn

NoQuestionList(x) ==
    ~IsDict(x) \/ ~IsList(Get(x, "questions")) \/ Len(Get(x, "questions").v) = 0

\* C9: in generate_assessment, when the extracted value holds no list of
\* questions the plain text is read for questions before any canned set is
\* used: canned questions are in the response only if the text was read and
\* gave no question.
C9_TextReadBeforeCanned ==
    (handler = "generate_assessment" /\ Succeeded) =>
        /\ (pc = "done" /\ NoQuestionList(result)) => Called("extract_questions_from_text")
        /\ Canned => /\ Called("extract_questions_from_text")
                     /\ extract_questions_from_text(text) = <<>>

\* the templated lessons as generate_module_lessons finishes them
LessonsCanned == [i \in 1..3 |-> CompletedLesson(DefaultLessons(data)[i], i, data)]

\* the data of the response was filled from the templates of the handler
DefaultsUsed ==
    CASE handler = "generate_assessment" -> Canned
      [] handler = "generate_module_lessons" -> RespData("lessons") = ListV(LessonsCanned)
      [] handler = "generate_course_with_persona" ->
             RespData("modules") = ListV(<<DefaultModule(Topic)>>)
      [] OTHER -> FALSE

\* C10: a success response whose data was filled from templated defaults
\* carries a note or a warning in its metadata.
C10_DefaultsFlagged ==
    (Succeeded /\ DefaultsUsed) =>
        /\ IsDict(Get(resp, "metadata"))
        /\ Has(Get(resp, "metadata"), "note") \/ Has(Get(resp, "metadata"), "warning")

\* C11: in generate_course, whenever the agent returned a text and a value
\* was extracted from it, the response is a success whose data is a course
\* with at least one module.
C11_CourseAlwaysSucceeds ==
    (handler = "generate_course" /\ hpc = "returned" /\ pc = "done") =>
        /\ Get(resp, "success") = BoolV(TRUE)
        /\ IsDict(Get(resp, "data"))
        /\ IsList(RespData("modules"))
        /\ Len(RespData("modules").v) >= 1

\* neither None nor an empty string, list or mapping
Populated(x) == x \notin {NoneV, StrV(<<>>), EmptyList, EmptyDict}

\* C12: in every success response of generate_persona the persona has each
\* of its eight descriptive fields populated.
C12_PersonaPopulated ==
    (handler = "generate_persona" /\ Succeeded) =>
        \A f \in {"name", "role", "specialties", "teachingStyle", "tone", "background",
                  "characteristics", "supportingQualities"} :
            /\ Has(RespData("persona"), f)
            /\ Populated(Get(RespData("persona"), f))


\* an endpoint handler has returned its envelope (a request that failed
\* validation never reached one)
HandlerReturned == handler \in Handlers /\ hpc = "returned" /\ pc # "invalid"

\* C13: every envelope an endpoint handler returns has a metadata mapping
\* that carries a timestamp.
C13_MetadataTimestamp ==
    HandlerReturned =>
        /\ IsDict(Get(resp, "metadata"))
        /\ Has(Get(resp, "metadata"), "timestamp")

\* C14: every envelope an endpoint handler returns with success true has
\* None as its error.
C14_SuccessWithoutError ==
    (HandlerReturned /\ Get(resp, "success") = BoolV(TRUE)) => Get(resp, "error") = NoneV

\* chat answered with a success although clean_json_response had raised
C14_Witness ==
    /\ handler = "chat"
    /\ HandlerReturned
    /\ pc = "raised"
    /\ Get(resp, "success") = BoolV(TRUE)
    /\ Has(Get(resp, "metadata"), "parsing_error")


\* the invocations of the backend and the sleeps, in order
Invocation == Call("initiate_chat", IntV(Dec(RequestTimeout)))
Slept == Call("sleep", IntV(Dec(RetryDelay)))

\* every attempt of the budget was made and none gave a helpful response
AllAttemptsBad ==
    /\ Len(tried) = MaxRetries
    /\ \A i \in 1..MaxRetries : tried[i] \in {"timeout", "error", "empty", "unhelpful"}

\* C15: when every one of the max_retries attempts ends badly the call
\* raises and returns no response string.
C15_ExhaustedRaises ==
    (handler = "execute_agent_task_with_retry" /\ AllAttemptsBad /\ hpc \in {"returned", "raised"}) =>
        hpc = "raised" /\ result = NoneV

\* C16: at most max_retries invocations; one sleep of retry_delay, no more
\* and no fewer, between an attempt that failed and the next invocation; no
\* sleep after the last attempt; nothing after a returned response.
C16_BoundedRetry ==
    handler = "execute_agent_task_with_retry" =>
        /\ Len(SelectSeq(calls, LAMBDA c : c = Invocation)) = Len(tried)
        /\ Len(tried) <= MaxRetries
        /\ \A i \in 1..Len(calls) : calls[i] = (IF i % 2 = 1 THEN Invocation ELSE Slept)
        /\ Len(calls) = IF hpc = "attempt" THEN 2 * Len(tried) ELSE 2 * Len(tried) - 1
        /\ hpc = "sleep" => (Len(tried) < MaxRetries /\ tried[Len(tried)] # "answered")
        /\ hpc \in {"returned", "raised"} => ~ENABLED NextRetry
        /\ \A i \in 1..Len(tried) - 1 : tried[i] # "answered"

\* three attempts were made, the first unhelpful, the second timed out and
\* the third raised: two sleeps, three invocations and an exception
C16_Witness ==
    /\ handler = "execute_agent_task_with_retry"
    /\ tried = <<"unhelpful", "timeout", "error">>
    /\ hpc = "raised"
    /\ calls = <<Invocation, Slept, Invocation, Slept, Invocation>>


\* the lines of the text, and those lines stripped as line 1133 strips them
TextLines == SplitLines(text)
Stripped(k) == Strip(TextLines[k], Whitespace)

\* the text is one question line, then lettered option lines, then a line
\* Answer: <letter>
ChoiceShape ==
    /\ Len(TextLines) >= 3
    /\ QuestionMatch(Stripped(1)).found
    /\ \A k \in 2..(Len(TextLines) - 1) : LetterOption(Stripped(k))
    /\ Len(TextLines[Len(TextLines)]) = 4
    /\ SubSeq(TextLines[Len(TextLines)], 1, 3) = <<"Answer", ":", " ">>
    /\ TextLines[Len(TextLines)][4] \in OptionLetters

\* the letter of the answer line and the option lines of such a text
AnswerLetter == TextLines[Len(TextLines)][4]
OptionLines == [k \in 1..(Len(TextLines) - 2) |-> StrV(Stripped(k + 1))]

ExtractedFromChoiceShape ==
    handler = "extract_questions_from_text" /\ hpc = "returned" /\ ChoiceShape

\* C17 as stated: one question comes back, its options are the option lines
\* in order and its correctAnswer is the option at the index of the letter.
C17_AnswerIsOption ==
    ExtractedFromChoiceShape =>
        /\ Len(out.v) = 1
        /\ Get(out.v[1], "options") = ListV(OptionLines)
        /\ LetterIndex(AnswerLetter) < Len(OptionLines)
        /\ Get(out.v[1], "correctAnswer") = OptionLines[LetterIndex(AnswerLetter) + 1]

\* C17: one question comes back, its options are the stripped option lines
\* in order, and its correctAnswer is the option at the index of the letter
\* when there is one, the letter itself when there is none.
C17_AnswerIsOptionInRange ==
    ExtractedFromChoiceShape =>
        /\ Len(out.v) = 1
        /\ Get(out.v[1], "options") = ListV(OptionLines)
        /\ Get(out.v[1], "correctAnswer") =
               IF LetterIndex(AnswerLetter) < Len(OptionLines)
               THEN OptionLines[LetterIndex(AnswerLetter) + 1]
               ELSE StrV(<<AnswerLetter>>)

\* two options and the answer B: the second option is the answer
C17_Witness ==
    /\ ExtractedFromChoiceShape
    /\ Len(OptionLines) = 2
    /\ AnswerLetter = "B"
    /\ Get(out.v[1], "correctAnswer") = OptionLines[2]
    /\ OptionLines[1] # OptionLines[2]


\* extract_json_by_building has returned
Built == pc = "done" /\ tried # <<>> /\ tried[Len(tried)] = "build"

\* C18: a returned question whose text contains "how much time" has the
\* category time_availability.
C18_HowMuchTime ==
    (handler = "extract_questions_from_text" /\ hpc = "returned") =>
        \A k \in 1..Len(out.v) :
            Contains(LowerText(Get(out.v[k], "question").v), <<"how", " ", "much", " ", "time">>)
                => Get(out.v[k], "category") = S("time_availability")

\* C19: a candidate span that is valid JSON once its newlines are replaced
\* by spaces is returned as parsed by the bracket-balanced scan.
C19_CollapseAloneSuffices ==
    (Built /\ IsCollapsible(Candidate(text))) =>
        result = JsonLoads(ReplaceNewlines(Candidate(text))).val

\* C20: when the text is a question line followed by one line of the
\* numbered-option pattern, that line is the one option of the one question
\* returned.
C20_NumberedOptionAppended ==
    (/\ handler = "extract_questions_from_text"
     /\ hpc = "returned"
     /\ Len(TextLines) = 2
     /\ QuestionMatch(Stripped(1)).found
     /\ NumberOption(Stripped(2))) =>
        /\ Len(out.v) = 1
        /\ Get(out.v[1], "id") = StrV(<<"q_">> \o QuestionMatch(Stripped(1)).number)
        /\ Get(out.v[1], "options") = ListV(<<StrV(Stripped(2))>>)


\* the text is one question line, then lettered option lines, then a line
\* of the answer pattern that is neither a question line nor an option line
\* and names an answer
AnswerShape ==
    /\ handler = "extract_questions_from_text"
    /\ hpc = "returned"
    /\ Len(TextLines) >= 3
    /\ QuestionMatch(Stripped(1)).found
    /\ \A k \in 2..(Len(TextLines) - 1) : LetterOption(Stripped(k))
    /\ AnswerLine(Stripped(Len(TextLines)))
    /\ ~QuestionMatch(Stripped(Len(TextLines))).found
    /\ ~LetterOption(Stripped(Len(TextLines)))
    /\ AnswerText(Stripped(Len(TextLines))) # <<>>

\* the answer text of the last line, a single letter resolved to the option
\* at its index
ResolvedAnswer ==
    LET answer_text == AnswerText(Stripped(Len(TextLines)))
    IN IF Len(answer_text) = 1 /\ answer_text[1] \in OptionLetters
          /\ LetterIndex(answer_text[1]) < Len(OptionLines)
       THEN OptionLines[LetterIndex(answer_text[1]) + 1]
       ELSE StrV(answer_text)

\* C21: an answer line of the current question sets its correctAnswer from
\* the answer text of the line, the words true and false included.
C21_AnswerLineSets ==
    AnswerShape =>
        /\ Len(out.v) = 1
        /\ Get(out.v[1], "correctAnswer") = ResolvedAnswer


ExtractReturned == handler = "extract_questions_from_text" /\ hpc = "returned"

\* no line of the text matches the answer pattern
NoAnswerLine == \A k \in 1..Len(TextLines) : ~AnswerLine(Stripped(k))

IsStart(k) == QuestionMatch(Stripped(k)).found

\* the last line of the question that line k starts
RECURSIVE SegmentEnd(_)
SegmentEnd(k) ==
    IF k = Len(TextLines) \/ IsStart(k + 1) THEN k ELSE SegmentEnd(k + 1)

\* the question started at line k collects an option before it is closed: a
\* lettered option line, or a true/false line with its two stock options
Collects(k) ==
    \E j \in (k + 1)..SegmentEnd(k) : LetterOption(Stripped(j)) \/ TrueFalse(Stripped(j))

\* the question-start lines from line k on whose question collects an option
RECURSIVE EmittedFrom(_)
EmittedFrom(k) ==
    IF k > Len(TextLines) THEN <<>>
    ELSE IF IsStart(k) /\ Collects(k) THEN <<k>> \o EmittedFrom(k + 1)
    ELSE EmittedFrom(k + 1)

StartCount == Cardinality({k \in 1..Len(TextLines) : IsStart(k)})

C24_RegistryUnchanged ==
    handler = "process" => data = EmptyList


\* a normalizer has returned
Normalized ==
    /\ handler \in {"validate_course_structure", "validate_assessment_questions",
                    "ensure_course_json_format"}
    /\ hpc = "returned"

\* C25: after a normalizer returns, the value passed to it is as it was when
\* passed.
C25_ArgumentUnchanged ==
    Normalized => data = calls[Len(calls)].arg


\* a list of mappings that each hold the keys of fields
AllWith(x, fields) ==
    /\ IsList(x)
    /\ \A i \in 1..Len(x.v) : IsDict(x.v[i]) /\ \A f \in fields : Has(x.v[i], f)

\* C26: validate_course_structure returns a mapping with a title, a
\* description and a non-empty list of modules, each a mapping with a title,
\* a description and a list of lessons that are mappings with title and
\* content.
C26_CourseStructured ==
    (handler = "validate_course_structure" /\ hpc = "returned") =>
        /\ IsDict(out)
        /\ Has(out, "title") /\ Has(out, "description")
        /\ AllWith(Get(out, "modules"), {"title", "description", "lessons"})
        /\ Len(Get(out, "modules").v) >= 1
        /\ \A i \in 1..Len(Get(out, "modules").v) :
              AllWith(Get(Get(out, "modules").v[i], "lessons"), {"title", "content"})


\* C27: in generate_module_lessons, whenever a value was extracted from the
\* text of the agent, the response is a success whose lessons are a
\* non-empty list of mappings with id, title and content.
C27_LessonsAlwaysServed ==
    (handler = "generate_module_lessons" /\ hpc = "returned" /\ pc = "done") =>
        /\ Get(resp, "success") = BoolV(TRUE)
        /\ AllWith(RespData("lessons"), {"id", "title", "content"})
        /\ Len(RespData("lessons").v) >= 1


\* the array of a text made of prose, an array and prose: from the first
\* opening bracket to the closing bracket that balances it
EmbeddedArray == Candidate(SubSeq(text, FindFrom(text, {"["}, 1), Len(text)))

\* C28: from prose, a JSON array and prose, clean_json_response returns the
\* whole array.
C28_ArrayReturnedWhole ==
    (handler = "none" /\ pc \in {"done", "raised"}) =>
        /\ pc = "done"
        /\ result = JsonLoads(EmbeddedArray).val


\* the fallback course of generate_course_from_assessment was returned
FallbackReturned ==
    /\ handler = "generate_course_from_assessment"
    /\ hpc = "returned"
    /\ Get(resp, "success") = BoolV(TRUE)
    /\ Has(Get(resp, "metadata"), "note")

RequestScores == Get(Get(data, "assessment"), "learningStyle")

LearningStyleNames == {"visual", "auditory", "reading", "kinesthetic"}

\* C29: the fallback course is described as optimized for a learning style
\* whose score, 0 when missing, is greatest among the four; never for
\* "mixed".
C29_PreferredStyleMaximal ==
    FallbackReturned =>
        \E style \in LearningStyleNames :
            /\ RespData("description") = FallbackDescription(style)
            /\ \A other \in LearningStyleNames :
                  Score(RequestScores, style) >= Score(RequestScores, other)

\* visual and reading tie for the greatest score, auditory is scored lower
\* and kinesthetic is missing: reading is chosen
C29_Witness ==
    /\ FallbackReturned
    /\ Score(RequestScores, "visual") = 1
    /\ Score(RequestScores, "reading") = 1
    /\ Score(RequestScores, "auditory") = -1
    /\ ~Has(RequestScores, "kinesthetic")
    /\ RespData("description") = FallbackDescription("reading")


\* C30: within one call of execute_agent_task_with_retry at most one
\* invocation of the backend is running at any time, also after an attempt
\* was abandoned by the time-out.
C30_OneInvocationAtATime ==
    handler = "execute_agent_task_with_retry" => Cardinality(data) <= 1

====
